---- MODULE Spec2Model ----
(***************************************************************************)
(* Session / process lifecycle layer of term-party (main.js): the live     *)
(* terminal map, the display order, ghosts, the directory name registry,   *)
(* the exit history, the per-session tail buffer and best-effort           *)
(* persistence.                                                            *)
(*                                                                         *)
(* A path is the sequence of its segments (<<"tmp","a">> is /tmp/a), so    *)
(* that path.basename is computed and not assumed.  A string of terminal   *)
(* output is the sequence of the stream positions of its units: the n-th   *)
(* unit a process ever wrote is the integer n.                             *)
(***************************************************************************)
EXTENDS Integers, Sequences, FiniteSets, TLC

VARIABLES
    terminals,       \* main.js:8   id -> [cwd, spawnName, tailBuffer, lastDataTime]
    nextId,          \* main.js:9
    savedTerminals,  \* main.js:10  ghosts, a sequence of [cwd]
    terminalOrder,   \* main.js:12
    directoryNames,  \* main.js:13  cwd -> display name
    recentExits,     \* main.js:16
    ptys,            \* the spawned pty processes with the closure state of their handlers
    exitedSent,      \* id -> number of 'terminal-exited' messages sent to the window
    mainWindow,      \* main.js:7   TRUE while the window exists and is not destroyed
    favorites,       \* main.js:11  a sequence of [cwd]
    phase,           \* "starting" before app.whenReady, "running", "closing" while
                     \* window-all-closed awaits its write, "quit" after app.quit()
    dataSent,        \* the 'terminal-data' messages sent to the window, in order
    now,             \* Date.now()
    pendingWrites,   \* fs.promises.writeFile calls in flight, each with its snapshot
    disk,            \* durable content of terminals.json and directory-names.json
    last,            \* the last handler that ran, its arguments and its result
    hCreated,        \* history: ids returned by successful create-terminal calls, in order
    hEnded,          \* history: returned ids since killed by a kill-terminal call or exited
    hExits,          \* history: ids whose process exit event fired, in order
    hAtShutdown,     \* history: the sessions live when window-all-closed began
    activeViewId,    \* renderer.js:18  "none" for null, a terminal id, or the name of a view
    termViews,       \* renderer.js:17  ids that have an xterm view
    dashboardPollInterval, \* renderer.js:740  the interval the dashboard holds, 0 for null
    timers,          \* the intervals of refreshDashboard set and not cleared
    nextTimer,       \* the handle the next setInterval returns
    listed,          \* the ghost rows of the sidebar as renderList last drew them
    awaiting,        \* renderer functions suspended at an await, with their closures
    scratchFiles,    \* the files under the parent of the scratchpad: path -> content
    logLines,        \* the lines of scratchpad/<project>/<terminalName>.jsonl
    servers,         \* the MCP server processes: where each is in append_log
    toolResult,      \* the result of the last MCP tool call
    hAppended        \* history: the entries appended to the log, in order

progVars == <<terminals, nextId, savedTerminals, terminalOrder, directoryNames,
              recentExits, ptys, exitedSent, mainWindow, phase, dataSent, favorites, now,
              pendingWrites, disk>>
histVars == <<hCreated, hEnded, hExits, hAtShutdown>>
rendVars == <<activeViewId, termViews, dashboardPollInterval, timers, nextTimer, listed,
              awaiting>>
mcpVars == <<scratchFiles, logLines, servers, toolResult, hAppended>>
peerVars == <<rendVars, mcpVars>>
vars == <<progVars, histVars, last, peerVars>>

----------------------------------------------------------------------------
(* Bounds *)
MaxId == 2            \* ids the lifecycle specification hands out
MaxGhosts == 1        \* ghosts loaded at startup
MaxClock == 1         \* clock ticks
MaxIdHist == 21       \* ids of the exit-history specification
MaxChunks == 3        \* output events per process in the tail-buffer specification
MaxStored == 3        \* ghosts loaded at startup in the ghost specification
MaxPending == 2        \* writes in flight in the shutdown specification
MaxData == 3           \* output events of the output specification
MaxInputs == 1        \* inputs forwarded to one process in the input specification
MaxAwaiting == 2     \* renderer functions suspended at an await at one time
MaxAppends == 502    \* append_log calls of a server to one log file
MaxShared == 3       \* append_log calls of two servers that share a log file
MaxTimers == 2       \* intervals the dashboard sets in a run

(* Program constants *)
MAX_RECENT_EXITS == 20
TAIL_BUFFER_SIZE == 4096
MAX_LOG_LINES == 500         \* part_003:31

(* Inputs *)
PathA == <<"tmp", "a">>
PathB == <<"tmp", "b">>
NoCwd == <<>>                    \* undefined / '' : a falsy cwd
HomeDir == <<"home", "u">>       \* os.homedir()
CwdInputs == {PathA, NoCwd}
DirInputs == {PathA, HomeDir}
NameInputs == {"Alpha"}
RegistryNames == {"Alpha", "Beta", ""}
RegistryDirs == {PathA, PathB}
ExitCodes == {0, 1}
ChunkLens == {1, 4095, 4096, 4097}
InputData == {"x"}
SizeInputs == {<<100, 30>>}      \* <<cols, rows>>

----------------------------------------------------------------------------
(* Helpers *)
Range(s) == {s[i] : i \in DOMAIN s}

\* Array.prototype.filter
RECURSIVE Filter(_, _)
Filter(s, keep) ==
    IF s = <<>> THEN <<>>
    ELSE IF Head(s) \in keep THEN <<Head(s)>> \o Filter(Tail(s), keep)
         ELSE Filter(Tail(s), keep)

\* mutant: the last element goes, whatever the index (pop() for splice(index, 1))
SpliceLast(s, index) == SubSeq(s, 1, Len(s) - 1)

\* Array.prototype.splice(index, 1)
Splice(s, index) == [k \in 1..(Len(s) - 1) |-> IF k <= index THEN s[k] ELSE s[k + 1]]

\* the keys of a Map id -> value in insertion order: ids are inserted in increasing order
RECURSIVE KeysAsc(_)
KeysAsc(S) ==
    IF S = {} THEN <<>>
    ELSE LET m == CHOOSE x \in S : \A y \in S : x <= y
         IN <<m>> \o KeysAsc(S \ {m})

\* the sequences over S of length at most n
RECURSIVE SeqsUpTo(_, _)
SeqsUpTo(S, n) ==
    IF n = 0 THEN {<<>>}
    ELSE LET shorter == SeqsUpTo(S, n - 1)
         IN shorter \cup {Append(s, x) : s \in shorter, x \in S}

\* path.basename
Basename(p) == IF p = <<>> THEN "" ELSE p[Len(p)]

\* String.prototype.slice(-n) for n > 0
SliceLast(s, n) == IF Len(s) <= n THEN s ELSE SubSeq(s, Len(s) - n + 1, Len(s))

\* the n units a process writes after having written total units
Chunk(total, n) == [k \in 1..n |-> total + k]

resolveDirectoryName(cwd) ==
    IF cwd \in DOMAIN directoryNames /\ directoryNames[cwd] # ""
    THEN directoryNames[cwd]
    ELSE Basename(cwd)

\* mutant: the snapshot lists the live sessions only
TerminalEntriesOfLive ==
    LET ids == KeysAsc(DOMAIN terminals)
    IN [k \in 1..Len(ids) |-> [cwd |-> terminals[ids[k]].cwd]]

\* the entries persistTerminals serializes
TerminalEntries ==
    LET ids == KeysAsc(DOMAIN terminals)
    IN [k \in 1..Len(ids) |-> [cwd |-> terminals[ids[k]].cwd]] \o
       [k \in 1..Len(savedTerminals) |-> [cwd |-> savedTerminals[k].cwd]]

persistTerminals == Append(pendingWrites, [file |-> "terminals", data |-> TerminalEntries'])
persistDirectoryNames == Append(pendingWrites, [file |-> "names", data |-> directoryNames'])
persistFavorites(writes) == Append(writes, [file |-> "favorites", data |-> favorites'])

\* the record of a handler run: ok is FALSE when the handler threw or returned false,
\* live tells whether id was in the live map when it began
Op(name, id, ok, title) ==
    [op |-> name, id |-> id, ok |-> ok, title |-> title, live |-> id \in DOMAIN terminals,
     order |-> <<>>, exitCode |-> 0, cwd |-> NoCwd]

----------------------------------------------------------------------------
(* The scratchpad of the MCP server: paths are sequences of segments, a segment is the
   sequence of its characters, so that a comparison of path strings is one of characters *)
\* the names of the model: the parent directory d, the scratchpad pad, its sibling pad2,
\* another directory o, a directory s inside the scratchpad, and a file f
Name == [d |-> <<"d">>, pad |-> <<"p", "a", "d">>, pad2 |-> <<"p", "a", "d", "2">>,
         o |-> <<"o">>, s |-> <<"s">>, f |-> <<"f">>]
DotDot == <<".", ".">>

\* process.env.TERM_PARTY_SCRATCHPAD, an absolute path
scratchpadDir == <<Name.d, Name.pad>>

\* the files an MCP tool can name: one in the scratchpad, one in a sibling directory whose
\* name begins with the name of the scratchpad, one in another directory
InitialFiles ==
    [file \in {<<Name.d, Name.pad, Name.f>>, <<Name.d, Name.pad2, Name.f>>,
               <<Name.d, Name.o, Name.f>>} |-> "old"]

\* the MCP server processes that share a scratchpad
Servers == 1..2

\* the string of an absolute path: the separator before each segment, "/" for the root
RECURSIVE PathString(_)
PathString(p) ==
    IF Len(p) <= 1
    THEN <<"/">> \o (IF p = <<>> THEN <<>> ELSE Head(p))
    ELSE <<"/">> \o Head(p) \o PathString(Tail(p))

\* a path argument of a tool: abs is TRUE when the string begins with the separator
Rel(segs) == [abs |-> FALSE, segs |-> segs]
Abs(segs) == [abs |-> TRUE, segs |-> segs]
PathInputs ==
    {Rel(<<Name.f>>), Rel(<<Name.s, DotDot, Name.f>>), Rel(<<>>), Rel(<<DotDot>>),
     Rel(<<DotDot, Name.pad2, Name.f>>), Rel(<<DotDot, Name.o, Name.f>>),
     Abs(<<Name.d, Name.pad, Name.f>>), Abs(<<Name.d, Name.pad2, Name.f>>),
     Abs(<<Name.d, Name.o, Name.f>>)}

\* path.normalize of the segments rest after the segments done
RECURSIVE Normalize(_, _)
Normalize(done, rest) ==
    IF rest = <<>> THEN done
    ELSE IF Head(rest) = DotDot
         THEN Normalize(IF done = <<>> THEN <<>> ELSE SubSeq(done, 1, Len(done) - 1),
                        Tail(rest))
         ELSE Normalize(Append(done, Head(rest)), Tail(rest))

\* path.resolve(scratchpadDir, relativePath)
Resolve(relativePath) ==
    IF relativePath.abs
    THEN Normalize(<<>>, relativePath.segs)
    ELSE Normalize(<<>>, scratchpadDir \o relativePath.segs)

\* String.prototype.startsWith
StartsWith(str, prefix) ==
    /\ Len(prefix) <= Len(str)
    /\ SubSeq(str, 1, Len(prefix)) = prefix

\* the values of activeViewId: null, a number (a terminal id) or a string (a special view)
NoView == [kind |-> "null", num |-> 0, name |-> ""]
TermView(id) == [kind |-> "number", num |-> id, name |-> ""]
SpecialView(name) == [kind |-> "string", num |-> 0, name |-> name]

\* the renderer after DOMContentLoaded: no view is active, nothing is listed yet
RendererLoaded ==
    /\ activeViewId = NoView
    /\ termViews = {}
    /\ dashboardPollInterval = 0
    /\ timers = {}
    /\ nextTimer = 1
    /\ listed = <<>>
    /\ awaiting = <<>>

\* the MCP servers after start, over a log file holding lines; sent counts a server's
\* append_log calls
ServersStarted(lines, sentBefore) ==
    /\ scratchFiles = InitialFiles
    /\ logLines = lines
    /\ servers = [p \in Servers |-> [pc |-> "idle", read |-> <<>>, sent |-> sentBefore[p]]]
    /\ toolResult = [tool |-> "none", path |-> Rel(<<>>), isError |-> FALSE, text |-> ""]
    /\ hAppended = lines

----------------------------------------------------------------------------
(* State after app.whenReady *)

\* what reading and parsing a file gives: "ok" a value of the container type the loader
\* wants, "missing" readFileSync throws, "garbage" JSON.parse throws, "other" a value
\* of another type
FileShapes == {"ok", "missing", "garbage", "other"}
AllParse == [f \in {"terminals", "names", "favorites"} |-> "ok"]

GhostLists == {[k \in 1..n |-> [cwd |-> PathB]] : n \in 0..MaxGhosts}

\* the module state of the main process
MainStarted(ghostLists, favoriteLists) ==
    /\ terminals = <<>>
    /\ nextId = 1
    /\ savedTerminals \in ghostLists
    /\ terminalOrder = <<>>
    /\ directoryNames = <<>>
    /\ recentExits = <<>>
    /\ ptys = <<>>
    /\ exitedSent = <<>>
    /\ mainWindow = TRUE
    /\ favorites \in favoriteLists
    /\ phase = "running"
    /\ dataSent = <<>>
    /\ now = 0
    /\ pendingWrites = <<>>
    /\ disk = [terminals |-> savedTerminals, names |-> directoryNames,
               favorites |-> favorites, shape |-> AllParse]
    /\ last = Op("init", 0, TRUE, "")
    /\ hCreated = <<>>
    /\ hEnded = {}
    /\ hExits = <<>>
    /\ hAtShutdown = <<>>

StartedWith(ghostLists, favoriteLists) ==
    /\ MainStarted(ghostLists, favoriteLists)
    /\ RendererLoaded
    /\ ServersStarted(<<>>, [p \in Servers |-> 0])

Init == StartedWith(GhostLists, {<<>>})

----------------------------------------------------------------------------
(* Map operations *)
Put(m, k, v) == [x \in (DOMAIN m) \cup {k} |-> IF x = k THEN v ELSE m[x]]
Remove(m, k) == [x \in (DOMAIN m) \ {k} |-> m[x]]
Count(m, k) == IF k \in DOMAIN m THEN m[k] ELSE 0

----------------------------------------------------------------------------
(* Steps of the handlers *)

\* mutant: the counter starts over when no session is live
AfterNextIdRecycling(n) == IF DOMAIN terminals = {} THEN 1 ELSE n + 1

\* const id = nextId++ : the value of nextId after the call
AfterNextId(n) == n + 1

\* mutant: the buffer is never cut
AppendTailUncut(tailBuffer, data) == tailBuffer \o data

\* mutant: a full buffer keeps its first units (slice(0, n) for slice(-n))
AppendTailKeepsHead(tailBuffer, data) ==
    LET appended == tailBuffer \o data
    IN IF Len(appended) > TAIL_BUFFER_SIZE
       THEN SubSeq(appended, 1, TAIL_BUFFER_SIZE)
       ELSE appended

\* tailBuffer += data; if (tailBuffer.length > TAIL_BUFFER_SIZE) tailBuffer = tailBuffer.slice(-TAIL_BUFFER_SIZE)
AppendTail(tailBuffer, data) ==
    LET appended == tailBuffer \o data
    IN IF Len(appended) > TAIL_BUFFER_SIZE
       THEN SliceLast(appended, TAIL_BUFFER_SIZE)
       ELSE appended

\* mutant: the order keeps the id
WithoutIdKept(order, id) == order

\* terminalOrder.filter(oid => oid !== id)
WithoutId(order, id) == Filter(order, Range(order) \ {id})

\* mutant: the requested order is stored as it came
LiveOnlyUnfiltered(order) == order

\* order.filter(id => terminals.has(id))
LiveOnly(order) == Filter(order, DOMAIN terminals)

\* const exitTitle = term ? resolveDirectoryName(term.cwd) : title
ExitTitle(id) ==
    IF id \in DOMAIN terminals
    THEN resolveDirectoryName(terminals[id].cwd)
    ELSE ptys[id].title

\* mutant: a full history drops its newest record (shift() for pop())
TrackExitDropsNewest(exits, record) ==
    LET unshifted == <<record>> \o exits
    IN IF Len(unshifted) > MAX_RECENT_EXITS THEN Tail(unshifted) ELSE unshifted

\* mutant: the exit of a process that was killed is not recorded
TrackExitOfUnkilled(exits, record) ==
    IF ptys[record.id].state = "killed"
    THEN exits
    ELSE LET unshifted == <<record>> \o exits
         IN IF Len(unshifted) > MAX_RECENT_EXITS
            THEN SubSeq(unshifted, 1, Len(unshifted) - 1)
            ELSE unshifted

\* recentExits.unshift(record); if (recentExits.length > MAX_RECENT_EXITS) recentExits.pop()
TrackExit(exits, record) ==
    LET unshifted == <<record>> \o exits
    IN IF Len(unshifted) > MAX_RECENT_EXITS
       THEN SubSeq(unshifted, 1, Len(unshifted) - 1)
       ELSE unshifted

\* mutant: the window is told only about sessions still in the live map
SendExitedIfLive(id) ==
    IF mainWindow /\ id \in DOMAIN terminals
    THEN Put(exitedSent, id, Count(exitedSent, id) + 1)
    ELSE exitedSent

\* if (mainWindow && !mainWindow.isDestroyed()) mainWindow.webContents.send('terminal-exited', { id })
SendExited(id) ==
    IF mainWindow
    THEN Put(exitedSent, id, Count(exitedSent, id) + 1)
    ELSE exitedSent

----------------------------------------------------------------------------
\* process.env of the main process
ProcessEnv == [v \in {"SHELL"} |-> "/bin/bash"]

\* getTerminalEnv: a copy of process.env, with TERM_PARTY_NAME for a non-empty name
getTerminalEnv(terminalName) ==
    IF terminalName # ""
    THEN Put(ProcessEnv, "TERM_PARTY_NAME", terminalName)
    ELSE ProcessEnv

\* mutant: the directory is taken as given, without the home directory for none
ResolvedCwdAsGiven(cwd) == cwd

\* const resolvedCwd = cwd || os.homedir()
ResolvedCwd(cwd) == IF cwd = NoCwd THEN HomeDir ELSE cwd

(* mutant: the id is pushed to the order before pty.spawn is tried *)
CreateTerminalOrdersFirst(cwd, spawns) ==
    LET id == nextId
        resolvedCwd == ResolvedCwd(cwd)
        title == resolveDirectoryName(resolvedCwd)
    IN /\ nextId' = AfterNextId(nextId)
       /\ IF spawns
          THEN /\ ptys' = Put(ptys, id, [state |-> "running", cwd |-> resolvedCwd,
                                         title |-> title, tailBuffer |-> <<>>,
                                         total |-> 0, chunks |-> 0,
                                         cols |-> 80, rows |-> 24, stdin |-> <<>>,
                                         env |-> getTerminalEnv(title)])
               /\ terminals' = Put(terminals, id,
                                   [cwd |-> resolvedCwd, spawnName |-> title,
                                    tailBuffer |-> <<>>, lastDataTime |-> now])
               /\ terminalOrder' = Append(terminalOrder, id)
               /\ UNCHANGED savedTerminals
               /\ pendingWrites' = persistTerminals
               /\ hCreated' = Append(hCreated, id)
               /\ last' = [Op("create", id, TRUE, title) EXCEPT !.cwd = resolvedCwd]
          ELSE /\ terminalOrder' = Append(terminalOrder, id)
               /\ UNCHANGED <<ptys, terminals, savedTerminals, pendingWrites, hCreated>>
               /\ last' = Op("create", id, FALSE, title)
       /\ UNCHANGED <<directoryNames, recentExits, exitedSent, mainWindow, phase, dataSent,
                      favorites, now, disk,
                      hEnded, hExits, hAtShutdown, peerVars>>

(* mutant: a session takes the ghosts of its directory out of the ghost list *)
HandleCreateTerminalTakesGhost(cwd, spawns) ==
    LET id == nextId
        resolvedCwd == ResolvedCwd(cwd)
        title == resolveDirectoryName(resolvedCwd)
    IN /\ nextId' = AfterNextId(nextId)
       /\ IF spawns
          THEN /\ ptys' = Put(ptys, id, [state |-> "running", cwd |-> resolvedCwd,
                                         title |-> title, tailBuffer |-> <<>>,
                                         total |-> 0, chunks |-> 0,
                                         cols |-> 80, rows |-> 24, stdin |-> <<>>,
                                         env |-> getTerminalEnv(title)])
               /\ terminals' = Put(terminals, id,
                                   [cwd |-> resolvedCwd, spawnName |-> title,
                                    tailBuffer |-> <<>>, lastDataTime |-> now])
               /\ terminalOrder' = Append(terminalOrder, id)
               /\ savedTerminals' = Filter(savedTerminals,
                                           Range(savedTerminals) \ {[cwd |-> resolvedCwd]})
               /\ pendingWrites' = persistTerminals
               /\ hCreated' = Append(hCreated, id)
               /\ last' = [Op("create", id, TRUE, title) EXCEPT !.cwd = resolvedCwd]
          ELSE /\ UNCHANGED <<ptys, terminals, terminalOrder, savedTerminals,
                              pendingWrites, hCreated>>
               /\ last' = Op("create", id, FALSE, title)
       /\ UNCHANGED <<directoryNames, recentExits, exitedSent, mainWindow, phase, dataSent,
                      favorites, now, disk,
                      hEnded, hExits, hAtShutdown, mcpVars>>

(* ipcMain.handle('create-terminal'): spawns is FALSE when pty.spawn throws *)
HandleCreateTerminal(cwd, spawns) ==
    LET id == nextId
        resolvedCwd == ResolvedCwd(cwd)
        title == resolveDirectoryName(resolvedCwd)
    IN /\ nextId' = AfterNextId(nextId)
       /\ IF spawns
          THEN /\ ptys' = Put(ptys, id, [state |-> "running", cwd |-> resolvedCwd,
                                         title |-> title, tailBuffer |-> <<>>,
                                         total |-> 0, chunks |-> 0,
                                         cols |-> 80, rows |-> 24, stdin |-> <<>>,
                                         env |-> getTerminalEnv(title)])
               /\ terminals' = Put(terminals, id,
                                   [cwd |-> resolvedCwd, spawnName |-> title,
                                    tailBuffer |-> <<>>, lastDataTime |-> now])
               /\ terminalOrder' = Append(terminalOrder, id)
               /\ UNCHANGED savedTerminals
               /\ pendingWrites' = persistTerminals
               /\ hCreated' = Append(hCreated, id)
               /\ last' = [Op("create", id, TRUE, title) EXCEPT !.cwd = resolvedCwd]
          ELSE /\ UNCHANGED <<ptys, terminals, terminalOrder, savedTerminals,
                              pendingWrites, hCreated>>
               /\ last' = Op("create", id, FALSE, title)
       /\ UNCHANGED <<directoryNames, recentExits, exitedSent, mainWindow, phase, dataSent,
                      favorites, now, disk,
                      hEnded, hExits, hAtShutdown, mcpVars>>

\* the handler when the renderer state plays no part
CreateTerminal(cwd, spawns) == HandleCreateTerminal(cwd, spawns) /\ UNCHANGED rendVars

\* mutant: the message carries the tail buffer in place of the chunk
DataMessageOfTail(id, data, tailBuffer) == [id |-> id, data |-> tailBuffer]

\* mainWindow.webContents.send('terminal-data', { id, data })
DataMessage(id, data, tailBuffer) == [id |-> id, data |-> data]

(* mutant: output of a process whose id has left the live map registers the id again *)
OnDataOfRegisters(id, data) ==
    /\ id \in DOMAIN ptys
    /\ ptys[id].state # "exited"
    /\ LET tailBuffer == AppendTail(ptys[id].tailBuffer, data)
       IN /\ ptys' = [ptys EXCEPT ![id].tailBuffer = tailBuffer,
                                  ![id].total = @ + Len(data),
                                  ![id].chunks = @ + 1]
          /\ terminals' = IF id \in DOMAIN terminals
                          THEN [terminals EXCEPT ![id].tailBuffer = tailBuffer,
                                                 ![id].lastDataTime = now]
                          ELSE Put(terminals, id,
                                   [cwd |-> ptys[id].cwd, spawnName |-> ptys[id].title,
                                    tailBuffer |-> tailBuffer, lastDataTime |-> now])
          /\ dataSent' = IF mainWindow
                         THEN Append(dataSent, DataMessage(id, data, tailBuffer))
                         ELSE dataSent
    /\ last' = Op("data", id, TRUE, "")
    /\ UNCHANGED <<nextId, savedTerminals, terminalOrder, directoryNames, recentExits,
                   exitedSent, mainWindow, phase, favorites, now, pendingWrites, disk,
                   histVars, peerVars>>

(* ptyProcess.onData of the process spawned for id: it writes the units data *)
OnDataOf(id, data) ==
    /\ id \in DOMAIN ptys
    /\ ptys[id].state # "exited"
    /\ LET tailBuffer == AppendTail(ptys[id].tailBuffer, data)
       IN /\ ptys' = [ptys EXCEPT ![id].tailBuffer = tailBuffer,
                                  ![id].total = @ + Len(data),
                                  ![id].chunks = @ + 1]
          /\ terminals' = IF id \in DOMAIN terminals
                          THEN [terminals EXCEPT ![id].tailBuffer = tailBuffer,
                                                 ![id].lastDataTime = now]
                          ELSE terminals
          /\ dataSent' = IF mainWindow
                         THEN Append(dataSent, DataMessage(id, data, tailBuffer))
                         ELSE dataSent
    /\ last' = Op("data", id, TRUE, "")
    /\ UNCHANGED <<nextId, savedTerminals, terminalOrder, directoryNames, recentExits,
                   exitedSent, mainWindow, phase, favorites, now, pendingWrites, disk,
                   histVars, peerVars>>

(* ptyProcess.onData: the process writes its next n units *)
OnData(id, n) == id \in DOMAIN ptys /\ OnDataOf(id, Chunk(ptys[id].total, n))

(* ptyProcess.onExit of the process spawned for id *)
HandleOnExit(id, exitCode) ==
    /\ id \in DOMAIN ptys
    /\ ptys[id].state # "exited"
    /\ LET exitTitle == ExitTitle(id)
       IN /\ terminals' = Remove(terminals, id)
          /\ terminalOrder' = WithoutId(terminalOrder, id)
          /\ recentExits' = TrackExit(recentExits,
                                      [id |-> id, title |-> exitTitle,
                                       exitCode |-> exitCode, timestamp |-> now])
          /\ exitedSent' = SendExited(id)
          /\ last' = [Op("exit", id, TRUE, exitTitle) EXCEPT !.exitCode = exitCode]
    /\ ptys' = [ptys EXCEPT ![id].state = "exited"]
    /\ hExits' = Append(hExits, id)
    /\ hEnded' = hEnded \cup {id}
    /\ UNCHANGED <<nextId, savedTerminals, directoryNames, mainWindow, phase, dataSent,
                   favorites, now,
                   pendingWrites, disk, hCreated, hAtShutdown, mcpVars>>

\* the callback when the renderer state plays no part
OnExit(id, exitCode) == HandleOnExit(id, exitCode) /\ UNCHANGED rendVars

(* mutant: persistTerminals() is called whether or not the id was live *)
KillTerminalAlwaysPersists(id) ==
    /\ IF id \in DOMAIN terminals
       THEN /\ ptys' = [ptys EXCEPT ![id].state = "killed"]
            /\ terminals' = Remove(terminals, id)
            /\ terminalOrder' = WithoutId(terminalOrder, id)
       ELSE UNCHANGED <<ptys, terminals, terminalOrder>>
    /\ UNCHANGED savedTerminals
    /\ pendingWrites' = persistTerminals
    /\ last' = Op("kill", id, TRUE, "")
    /\ hEnded' = IF id \in Range(hCreated) THEN hEnded \cup {id} ELSE hEnded
    /\ UNCHANGED <<nextId, directoryNames, recentExits, exitedSent, mainWindow, phase,
                   dataSent, favorites, now,
                   disk, hCreated, hExits, hAtShutdown, peerVars>>

\* mutant: the handle is looked up among the spawned processes
HasTermAmongProcesses(id) == id \in DOMAIN ptys

\* const term = terminals.get(id); if (term) ...
HasTerm(id) == id \in DOMAIN terminals

(* ipcMain.on('terminal-input') *)
TerminalInput(id, data) ==
    /\ ptys' = IF HasTerm(id) THEN [ptys EXCEPT ![id].stdin = Append(@, data)] ELSE ptys
    /\ last' = Op("input", id, TRUE, "")
    /\ UNCHANGED <<terminals, nextId, savedTerminals, terminalOrder, directoryNames,
                   recentExits, exitedSent, mainWindow, phase, dataSent, favorites, now,
                   pendingWrites,
                   disk, histVars, peerVars>>

(* ipcMain.on('terminal-resize') *)
HandleTerminalResize(id, cols, rows) ==
    /\ ptys' = IF HasTerm(id)
               THEN [ptys EXCEPT ![id].cols = cols, ![id].rows = rows]
               ELSE ptys
    /\ last' = Op("resize", id, TRUE, "")
    /\ UNCHANGED <<terminals, nextId, savedTerminals, terminalOrder, directoryNames,
                   recentExits, exitedSent, mainWindow, phase, dataSent, favorites, now,
                   pendingWrites,
                   disk, histVars, mcpVars>>

\* the handler when the renderer state plays no part
TerminalResize(id, cols, rows) == HandleTerminalResize(id, cols, rows) /\ UNCHANGED rendVars

(* ipcMain.handle('kill-terminal') *)
HandleKillTerminal(id) ==
    /\ IF id \in DOMAIN terminals
       THEN /\ ptys' = [ptys EXCEPT ![id].state = "killed"]
            /\ terminals' = Remove(terminals, id)
            /\ terminalOrder' = WithoutId(terminalOrder, id)
            /\ UNCHANGED savedTerminals
            /\ pendingWrites' = persistTerminals
       ELSE UNCHANGED <<ptys, terminals, terminalOrder, savedTerminals, pendingWrites>>
    /\ last' = Op("kill", id, TRUE, "")
    /\ hEnded' = IF id \in Range(hCreated) THEN hEnded \cup {id} ELSE hEnded
    /\ UNCHANGED <<nextId, directoryNames, recentExits, exitedSent, mainWindow, phase,
                   dataSent, favorites, now,
                   disk, hCreated, hExits, hAtShutdown, mcpVars>>

\* the handler when the renderer state plays no part
KillTerminal(id) == HandleKillTerminal(id) /\ UNCHANGED rendVars

(* ipcMain.handle('set-terminal-order') *)
SetTerminalOrder(order) ==
    /\ terminalOrder' = LiveOnly(order)
    /\ UNCHANGED <<terminals, savedTerminals>>
    /\ pendingWrites' = persistTerminals
    /\ last' = [Op("order", 0, TRUE, "") EXCEPT !.order = order]
    /\ UNCHANGED <<nextId, directoryNames, recentExits, ptys, exitedSent, mainWindow,
                   phase, dataSent, favorites,
                   now, disk, histVars, peerVars>>

(* ipcMain.handle('remove-saved-terminal') *)
HandleRemoveSavedTerminal(index) ==
    /\ IF index >= 0 /\ index < Len(savedTerminals)
       THEN /\ savedTerminals' = Splice(savedTerminals, index)
            /\ UNCHANGED terminals
            /\ pendingWrites' = persistTerminals
       ELSE UNCHANGED <<savedTerminals, terminals, pendingWrites>>
    /\ last' = Op("removeGhost", index, TRUE, "")
    /\ UNCHANGED <<nextId, terminalOrder, directoryNames, recentExits, ptys, exitedSent,
                   mainWindow, phase, dataSent, favorites, now, disk, histVars, mcpVars>>

\* the handler when the renderer state plays no part
RemoveSavedTerminal(index) == HandleRemoveSavedTerminal(index) /\ UNCHANGED rendVars

(* ipcMain.handle('rename-terminal'): ghost is TRUE for an id 'ghost-<n>' *)
RenameTerminal(ghost, n, newTitle) ==
    LET cwd == IF ghost
               THEN IF n >= 0 /\ n < Len(savedTerminals)
                    THEN savedTerminals[n + 1].cwd ELSE NoCwd
               ELSE IF n \in DOMAIN terminals THEN terminals[n].cwd ELSE NoCwd
    IN /\ IF cwd # NoCwd
          THEN /\ directoryNames' = Put(directoryNames, cwd, newTitle)
               /\ pendingWrites' = persistDirectoryNames
          ELSE UNCHANGED <<directoryNames, pendingWrites>>
       /\ last' = [Op("renameTerminal", n, TRUE, newTitle) EXCEPT !.cwd = cwd]
       /\ UNCHANGED <<terminals, nextId, savedTerminals, terminalOrder, recentExits, ptys,
                      exitedSent, mainWindow, phase, dataSent, favorites, now, disk, histVars,
                      peerVars>>

(* mutant: a directory that has a name keeps it (the test add-favorite makes) *)
RenameDirectoryKeepsFirst(cwd, newName) ==
    /\ IF cwd # NoCwd /\ newName # "" /\ cwd \notin DOMAIN directoryNames
       THEN /\ directoryNames' = Put(directoryNames, cwd, newName)
            /\ pendingWrites' = persistDirectoryNames
       ELSE UNCHANGED <<directoryNames, pendingWrites>>
    /\ last' = [Op("renameDirectory", 0, TRUE, newName) EXCEPT !.cwd = cwd]
    /\ UNCHANGED <<terminals, nextId, savedTerminals, terminalOrder, recentExits, ptys,
                   exitedSent, mainWindow, phase, dataSent, favorites, now, disk, histVars,
                   peerVars>>

(* ipcMain.handle('rename-directory') *)
RenameDirectory(cwd, newName) ==
    /\ IF cwd # NoCwd /\ newName # ""
       THEN /\ directoryNames' = Put(directoryNames, cwd, newName)
            /\ pendingWrites' = persistDirectoryNames
       ELSE UNCHANGED <<directoryNames, pendingWrites>>
    /\ last' = [Op("renameDirectory", 0, TRUE, newName) EXCEPT !.cwd = cwd]
    /\ UNCHANGED <<terminals, nextId, savedTerminals, terminalOrder, recentExits, ptys,
                   exitedSent, mainWindow, phase, dataSent, favorites, now, disk, histVars,
                   peerVars>>

(* ipcMain.handle('get-favorites') *)
GetFavorites ==
    [k \in 1..Len(favorites) |->
        [name |-> resolveDirectoryName(favorites[k].cwd), cwd |-> favorites[k].cwd]]

\* mutant: the favorite is pushed without the look for one of the same directory
IsFavoriteNever(cwd) == FALSE

\* favorites.some(f => f.cwd === cwd)
IsFavorite(cwd) == \E k \in DOMAIN favorites : favorites[k].cwd = cwd

(* mutant: the name given is stored whether or not the directory has a name *)
AddFavoriteOverwritesName(name, cwd) ==
    /\ IF IsFavorite(cwd)
       THEN /\ UNCHANGED <<favorites, directoryNames, pendingWrites>>
            /\ last' = [Op("addFavorite", 0, FALSE, name) EXCEPT !.cwd = cwd]
       ELSE /\ favorites' = Append(favorites, [cwd |-> cwd])
            /\ IF name # "" /\ name # Basename(cwd)
               THEN /\ directoryNames' = Put(directoryNames, cwd, name)
                    /\ pendingWrites' = persistFavorites(persistDirectoryNames)
               ELSE /\ UNCHANGED directoryNames
                    /\ pendingWrites' = persistFavorites(pendingWrites)
            /\ last' = [Op("addFavorite", 0, TRUE, name) EXCEPT !.cwd = cwd]
    /\ UNCHANGED <<terminals, nextId, savedTerminals, terminalOrder, recentExits, ptys,
                   exitedSent, mainWindow, phase, dataSent, now, disk, histVars, peerVars>>

(* ipcMain.handle('add-favorite'): returns false for a directory that is a favorite *)
AddFavorite(name, cwd) ==
    /\ IF IsFavorite(cwd)
       THEN /\ UNCHANGED <<favorites, directoryNames, pendingWrites>>
            /\ last' = [Op("addFavorite", 0, FALSE, name) EXCEPT !.cwd = cwd]
       ELSE /\ favorites' = Append(favorites, [cwd |-> cwd])
            /\ IF /\ name # ""
                  /\ name # Basename(cwd)
                  /\ ~(cwd \in DOMAIN directoryNames /\ directoryNames[cwd] # "")
               THEN /\ directoryNames' = Put(directoryNames, cwd, name)
                    /\ pendingWrites' = persistFavorites(persistDirectoryNames)
               ELSE /\ UNCHANGED directoryNames
                    /\ pendingWrites' = persistFavorites(pendingWrites)
            /\ last' = [Op("addFavorite", 0, TRUE, name) EXCEPT !.cwd = cwd]
    /\ UNCHANGED <<terminals, nextId, savedTerminals, terminalOrder, recentExits, ptys,
                   exitedSent, mainWindow, phase, dataSent, now, disk, histVars, peerVars>>

(* ipcMain.handle('remove-favorite') *)
RemoveFavorite(cwd) ==
    /\ favorites' = Filter(favorites, Range(favorites) \ {f \in Range(favorites) : f.cwd = cwd})
    /\ pendingWrites' = IF Len(favorites') # Len(favorites)
                        THEN persistFavorites(pendingWrites)
                        ELSE pendingWrites
    /\ last' = [Op("removeFavorite", 0, TRUE, "") EXCEPT !.cwd = cwd]
    /\ UNCHANGED <<terminals, nextId, savedTerminals, terminalOrder, directoryNames,
                   recentExits, ptys, exitedSent, mainWindow, phase, dataSent, now, disk,
                   histVars, peerVars>>

(* ipcMain.handle('rename-favorite') *)
RenameFavorite(cwd, newName) ==
    /\ IF cwd # NoCwd /\ newName # ""
       THEN /\ directoryNames' = Put(directoryNames, cwd, newName)
            /\ pendingWrites' = persistDirectoryNames
       ELSE UNCHANGED <<directoryNames, pendingWrites>>
    /\ last' = [Op("renameFavorite", 0, TRUE, newName) EXCEPT !.cwd = cwd]
    /\ UNCHANGED <<terminals, nextId, savedTerminals, terminalOrder, recentExits, ptys,
                   exitedSent, mainWindow, phase, dataSent, favorites, now, disk, histVars,
                   peerVars>>

(* ipcMain.handle('get-terminals'): the id of an entry is <<"id", n>> for the number n
   and <<"ghost", i>> for the string 'ghost-<i>' *)
GetTerminals ==
    LET ordered == Filter(terminalOrder, DOMAIN terminals)
        fallback == Filter(KeysAsc(DOMAIN terminals),
                           (DOMAIN terminals) \ Range(terminalOrder))
        live == ordered \o fallback
    IN [k \in 1..Len(live) |->
            [id |-> <<"id", live[k]>>, cwd |-> terminals[live[k]].cwd,
             title |-> resolveDirectoryName(terminals[live[k]].cwd), ghost |-> FALSE,
             lastDataTime |-> terminals[live[k]].lastDataTime]] \o
       [k \in 1..Len(savedTerminals) |->
            [id |-> <<"ghost", k - 1>>, cwd |-> savedTerminals[k].cwd,
             title |-> resolveDirectoryName(savedTerminals[k].cwd), ghost |-> TRUE]]

(* ipcMain.handle('get-dashboard-data') *)
GetDashboardData ==
    LET ids == KeysAsc(DOMAIN terminals)
    IN [terminals |-> [k \in 1..Len(ids) |->
                          [id |-> ids[k],
                           title |-> resolveDirectoryName(terminals[ids[k]].cwd),
                           cwd |-> terminals[ids[k]].cwd,
                           tailText |-> terminals[ids[k]].tailBuffer,
                           lastDataTime |-> terminals[ids[k]].lastDataTime]],
        recentExits |-> recentExits]

----------------------------------------------------------------------------
(* The renderer. An IPC call of the renderer is handled by the main process in the step
   that sends it; a function of the renderer that awaits the reply is suspended in
   awaiting and resumes in a step of its own *)
mainVars == <<progVars, histVars, last>>

\* mutant: the dashboard forgets its interval without clearing it
DashboardOnDeactivateForgets ==
    /\ dashboardPollInterval' = 0
    /\ UNCHANGED timers

\* the dashboard's onDeactivate
DashboardOnDeactivate ==
    IF dashboardPollInterval # 0
    THEN /\ timers' = timers \ {dashboardPollInterval}
         /\ dashboardPollInterval' = 0
    ELSE UNCHANGED <<timers, dashboardPollInterval>>

\* prev.onDeactivate of the special view that is active, if any
DeactivateSpecial ==
    IF activeViewId = SpecialView("dashboard")
    THEN DashboardOnDeactivate
    ELSE UNCHANGED <<timers, dashboardPollInterval>>

(* activateView(viewId) of a special view: the title, the sidebar buttons, the shortcuts *)
ActivateView(viewId) ==
    /\ IF activeViewId = SpecialView(viewId)
       THEN UNCHANGED <<activeViewId, timers, dashboardPollInterval, nextTimer>>
       ELSE /\ activeViewId' = SpecialView(viewId)
            /\ IF viewId = "dashboard"
               THEN \* the view left is not the dashboard: its onDeactivate holds no
                    \* interval; then the dashboard's onActivate
                    /\ dashboardPollInterval' = nextTimer
                    /\ timers' = timers \cup {nextTimer}
                    /\ nextTimer' = nextTimer + 1
               ELSE DeactivateSpecial /\ UNCHANGED nextTimer
    /\ UNCHANGED <<termViews, listed, awaiting, mainVars, mcpVars>>

\* activateTerminal(id) with its resize message to the main process
ActivateTerminalTo(id, size) ==
    /\ DeactivateSpecial
    /\ IF activeViewId = TermView(id)
       THEN UNCHANGED <<activeViewId, termViews, mainVars, mcpVars>>
       ELSE /\ activeViewId' = TermView(id)
            /\ termViews' = termViews \cup {id}
            /\ HandleTerminalResize(id, size[1], size[2])
    /\ UNCHANGED nextTimer

(* a click on the row of a live session, or a shortcut that lands on it *)
ActivateTerminal(row) ==
    /\ row \in DOMAIN listed
    /\ ~listed[row].ghost
    /\ \E size \in SizeInputs : ActivateTerminalTo(listed[row].id[2], size)
    /\ UNCHANGED <<listed, awaiting>>

(* refreshList once its get-terminals call has replied: renderList *)
RefreshList ==
    /\ listed' = GetTerminals
    /\ listed' # listed
    /\ UNCHANGED <<activeViewId, termViews, dashboardPollInterval, timers, nextTimer,
                   awaiting, mainVars, mcpVars>>

\* what a suspended function does to the views when a session is gone:
\* the tail of killTerminal and the terminal-exited listener
DisposeView(id) ==
    /\ termViews' = termViews \ {id}
    /\ activeViewId' = IF activeViewId = TermView(id) THEN NoView ELSE activeViewId

Resumed(k) == Splice(awaiting, k - 1)

\* no function of the renderer is suspended: the user clicks one thing at a time
Unsuspended == awaiting = <<>>

(* killTerminal(id) up to its await: the kill button of a live row *)
KillClicked(row) ==
    /\ row \in DOMAIN listed
    /\ ~listed[row].ghost
    /\ HandleKillTerminal(listed[row].id[2])
    /\ awaiting' = Append(awaiting, [fn |-> "killTerminal", id |-> listed[row].id[2]])
    /\ UNCHANGED <<activeViewId, termViews, dashboardPollInterval, timers, nextTimer, listed>>

(* killTerminal(id) after its await *)
KillReplied(k) ==
    /\ k \in DOMAIN awaiting
    /\ awaiting[k].fn = "killTerminal"
    /\ DisposeView(awaiting[k].id)
    /\ awaiting' = Resumed(k)
    /\ UNCHANGED <<dashboardPollInterval, timers, nextTimer, listed, mainVars, mcpVars>>

(* the process of a session exits and the window is sent terminal-exited *)
PtyExits(id, exitCode) ==
    /\ HandleOnExit(id, exitCode)
    /\ awaiting' = IF mainWindow
                   THEN Append(awaiting, [fn |-> "onExit", id |-> id])
                   ELSE awaiting
    /\ UNCHANGED <<activeViewId, termViews, dashboardPollInterval, timers, nextTimer, listed>>

(* window.termParty.onExit: the listener of terminal-exited *)
ExitReceived(k) ==
    /\ k \in DOMAIN awaiting
    /\ awaiting[k].fn = "onExit"
    /\ DisposeView(awaiting[k].id)
    /\ awaiting' = Resumed(k)
    /\ UNCHANGED <<dashboardPollInterval, timers, nextTimer, listed, mainVars, mcpVars>>

(* removeSavedTerminal(ghostIndex): the remove button of a ghost row *)
RemoveGhostClicked(row) ==
    /\ row \in DOMAIN listed
    /\ listed[row].ghost
    /\ HandleRemoveSavedTerminal(listed[row].id[2])
    /\ UNCHANGED rendVars

(* spawnGhost(ghostIndex, t.cwd) up to its first await: a click on a ghost row.
   hRemoved is history: the entries the remove-saved-terminal call took out *)
SpawnGhostClicked(row) ==
    /\ row \in DOMAIN listed
    /\ listed[row].ghost
    /\ HandleRemoveSavedTerminal(listed[row].id[2])
    /\ awaiting' = Append(awaiting,
                          [fn |-> "spawnGhost", index |-> listed[row].id[2],
                           cwd |-> listed[row].cwd,
                           hRemoved |-> IF Len(savedTerminals') < Len(savedTerminals)
                                        THEN <<savedTerminals[listed[row].id[2] + 1]>>
                                        ELSE <<>>])
    /\ UNCHANGED <<activeViewId, termViews, dashboardPollInterval, timers, nextTimer, listed>>

(* spawnGhost between its awaits: createTerminal(cwd); a rejected call ends the function *)
SpawnGhostCreates(k, spawns) ==
    /\ k \in DOMAIN awaiting
    /\ awaiting[k].fn = "spawnGhost"
    /\ HandleCreateTerminal(awaiting[k].cwd, spawns)
    /\ awaiting' = IF spawns
                   THEN Append(Resumed(k), [fn |-> "spawned", id |-> nextId])
                   ELSE Resumed(k)
    /\ UNCHANGED <<activeViewId, termViews, dashboardPollInterval, timers, nextTimer, listed>>

(* the add button and spawnFromFavorite up to the reply of createTerminal(dir) *)
AddTerminalClicked(dir, spawns) ==
    /\ HandleCreateTerminal(dir, spawns)
    /\ awaiting' = IF spawns
                   THEN Append(awaiting, [fn |-> "spawned", id |-> nextId])
                   ELSE awaiting
    /\ UNCHANGED <<activeViewId, termViews, dashboardPollInterval, timers, nextTimer, listed>>

(* after the reply of createTerminal: activateTerminal(info.id) *)
SpawnedActivates(k) ==
    /\ k \in DOMAIN awaiting
    /\ awaiting[k].fn = "spawned"
    /\ \E size \in SizeInputs : ActivateTerminalTo(awaiting[k].id, size)
    /\ awaiting' = Resumed(k)
    /\ UNCHANGED listed

----------------------------------------------------------------------------
(* The MCP server: the file tools of the scratchpad *)

\* resolveSafe does not throw: the string of the resolved path starts with scratchpadDir
PassesResolveSafe(relativePath) ==
    StartsWith(PathString(Resolve(relativePath)), PathString(scratchpadDir))

\* the path names a directory: the scratchpad, a directory above it or above a file
IsDirectory(path) ==
    \/ \E n \in 0..Len(scratchpadDir) : path = SubSeq(scratchpadDir, 1, n)
    \/ \E f \in DOMAIN scratchFiles : Len(path) < Len(f) /\ path = SubSeq(f, 1, Len(path))

\* the result of a tool: of its catch block when message is not "", else of its body
Result(tool, relativePath, message, text) ==
    IF message # ""
    THEN [tool |-> tool, path |-> relativePath, isError |-> TRUE,
          text |-> "Error: " \o message]
    ELSE [tool |-> tool, path |-> relativePath, isError |-> FALSE, text |-> text]

\* the message of the error the body of a file tool throws before it touches the file,
\* "" when it throws none; mustExist is TRUE for readFileSync and unlinkSync
FileError(relativePath, mustExist) ==
    IF ~PassesResolveSafe(relativePath) THEN "Path traversal not allowed"
    ELSE IF IsDirectory(Resolve(relativePath)) THEN "EISDIR"
    ELSE IF mustExist /\ Resolve(relativePath) \notin DOMAIN scratchFiles THEN "ENOENT"
    ELSE ""

fileFrame == <<logLines, servers, hAppended, mainVars, rendVars>>

(* server.tool('read_file') *)
ReadFile(relativePath) ==
    /\ toolResult' =
           Result("read_file", relativePath, FileError(relativePath, TRUE),
                  IF FileError(relativePath, TRUE) = ""
                  THEN scratchFiles[Resolve(relativePath)]
                  ELSE "")
    /\ UNCHANGED <<scratchFiles, fileFrame>>

(* server.tool('write_file') *)
WriteFile(relativePath, content) ==
    /\ IF FileError(relativePath, FALSE) # ""
       THEN UNCHANGED scratchFiles
       ELSE scratchFiles' = Put(scratchFiles, Resolve(relativePath), content)
    /\ toolResult' = Result("write_file", relativePath, FileError(relativePath, FALSE),
                            "Written")
    /\ UNCHANGED fileFrame

(* server.tool('delete_file') *)
DeleteFile(relativePath) ==
    /\ IF FileError(relativePath, TRUE) # ""
       THEN UNCHANGED scratchFiles
       ELSE scratchFiles' = Remove(scratchFiles, Resolve(relativePath))
    /\ toolResult' = Result("delete_file", relativePath, FileError(relativePath, TRUE),
                            "Deleted")
    /\ UNCHANGED fileFrame

----------------------------------------------------------------------------
(* The MCP server: the channel log scratchpad/<project>/<terminalName>.jsonl. The file
   is the sequence of its lines, a line the object JSON.parse gives for it *)

\* process.env.TERM_PARTY_NAME of a terminal spawned in /tmp/a: the title of the directory
terminalName == "a"

\* isValidProjectName for the inputs
isValidProjectName(name) == name # "" /\ name # "." /\ name # ".."

\* the entry a server passes in its call number seq, without and with fields of the
\* names the server sets
EntryInputs(p, seq) ==
    {[seq |-> seq, by |-> p],
     [seq |-> seq, by |-> p, _from |-> "other", _ts |-> -1]}

\* { ...entry, _from: terminalName, _ts: new Date().toISOString() }
Augmented(entry) ==
    [f \in (DOMAIN entry) \cup {"_from", "_ts"} |->
        IF f = "_from" THEN terminalName ELSE IF f = "_ts" THEN now ELSE entry[f]]

\* mutant: the first MAX_LOG_LINES lines are kept
TrimmedFromHead(lines) ==
    IF Len(lines) > MAX_LOG_LINES
    THEN SubSeq(lines, 1, MAX_LOG_LINES)
    ELSE lines

\* what trimLogFile leaves in the file when it has read lines
Trimmed(lines) ==
    IF Len(lines) > MAX_LOG_LINES
    THEN SubSeq(lines, Len(lines) - MAX_LOG_LINES + 1, Len(lines))
    ELSE lines

logFrame == <<scratchFiles, mainVars, rendVars>>

(* server.tool('append_log') up to fs.appendFileSync *)
AppendLog(p, project, entry) ==
    /\ servers[p].pc = "idle"
    /\ IF isValidProjectName(project)
       THEN /\ logLines' = Append(logLines, Augmented(entry))
            /\ hAppended' = Append(hAppended, Augmented(entry))
            /\ servers' = [servers EXCEPT ![p].pc = "appended", ![p].sent = @ + 1]
            /\ UNCHANGED toolResult
       ELSE /\ toolResult' = Result("append_log", Rel(<<>>), "Invalid project name", "")
            /\ UNCHANGED <<logLines, hAppended, servers>>
    /\ UNCHANGED logFrame

(* trimLogFile: fs.readFileSync and the split into lines *)
TrimLogReads(p) ==
    /\ servers[p].pc = "appended"
    /\ servers' = [servers EXCEPT ![p].pc = "read", ![p].read = logLines]
    /\ UNCHANGED <<logLines, hAppended, toolResult, logFrame>>

(* trimLogFile: fs.writeFileSync when more than MAX_LOG_LINES lines were read, and the
   return of append_log *)
TrimLogWrites(p) ==
    /\ servers[p].pc = "read"
    /\ logLines' = IF Len(servers[p].read) > MAX_LOG_LINES
                   THEN Trimmed(servers[p].read)
                   ELSE logLines
    /\ servers' = [servers EXCEPT ![p].pc = "idle", ![p].read = <<>>]
    /\ toolResult' = Result("append_log", Rel(<<>>), "", "Appended")
    /\ UNCHANGED <<hAppended, logFrame>>

(* mutant: a failed write takes the record in memory back to what the file holds *)
WriteSettlesRollsBack(k, written) ==
    /\ k \in DOMAIN pendingWrites
    /\ "awaited" \notin DOMAIN pendingWrites[k]
    /\ pendingWrites' = [j \in 1..(Len(pendingWrites) - 1) |->
                            IF j < k THEN pendingWrites[j] ELSE pendingWrites[j + 1]]
    /\ disk' = IF written
               THEN [disk EXCEPT ![pendingWrites[k].file] = pendingWrites[k].data,
                                 !.shape[pendingWrites[k].file] = "ok"]
               ELSE disk
    /\ directoryNames' = IF ~written /\ pendingWrites[k].file = "names"
                         THEN disk.names ELSE directoryNames
    /\ favorites' = IF ~written /\ pendingWrites[k].file = "favorites"
                    THEN disk.favorites ELSE favorites
    /\ terminalOrder' = IF ~written /\ pendingWrites[k].file = "terminals"
                        THEN <<>> ELSE terminalOrder
    /\ UNCHANGED <<terminals, nextId, savedTerminals, recentExits, ptys, exitedSent,
                   mainWindow, phase, dataSent, now, histVars, peerVars, last>>

(* fs.promises.writeFile of the k-th write in flight settles: written, or failed *)
WriteSettles(k, written) ==
    /\ k \in DOMAIN pendingWrites
    /\ "awaited" \notin DOMAIN pendingWrites[k]
    /\ pendingWrites' = [j \in 1..(Len(pendingWrites) - 1) |->
                            IF j < k THEN pendingWrites[j] ELSE pendingWrites[j + 1]]
    /\ disk' = IF written
               THEN [disk EXCEPT ![pendingWrites[k].file] = pendingWrites[k].data,
                                 !.shape[pendingWrites[k].file] = "ok"]
               ELSE disk
    /\ UNCHANGED <<terminals, nextId, savedTerminals, terminalOrder, directoryNames,
                   recentExits, ptys, exitedSent, mainWindow, phase, dataSent, favorites,
                   now, histVars, peerVars, last>>

(* Date.now() advances *)
Tick ==
    /\ now' = now + 1
    /\ UNCHANGED <<terminals, nextId, savedTerminals, terminalOrder, directoryNames,
                   recentExits, ptys, exitedSent, mainWindow, phase, dataSent, favorites,
                   pendingWrites, disk,
                   histVars, peerVars, last>>

----------------------------------------------------------------------------
(* The lifecycle specification: sessions, their order and the ghosts.  A request
   is handled once the writes of the previous one have settled; process exits
   arrive at any time. *)
(* Startup from the files as they are *)

\* an array element that is null
NullEntry == [isNull |-> TRUE]
IsNull(e) == "isNull" \in DOMAIN e

\* entry.title, fav.name, entry.cwd: undefined (here "" and NoCwd) when the field is absent
FieldOf(e, f, absent) == IF f \in DOMAIN e THEN e[f] ELSE absent

\* loadSavedTerminals, loadFavorites, loadDirectoryNames: the parsed value when it has
\* the container type, [] or {} otherwise; the elements are not looked at
Loaded(file) == IF disk.shape[file] = "ok" THEN disk[file] ELSE <<>>

\* one loop of migrateToDirectoryNames over entries, naming by the field given, from
\* acc = [names, migrated, threw]; reading a field of a null element throws a TypeError
\* and leaves the names seeded so far in place
RECURSIVE MigrateFrom(_, _, _)
MigrateFrom(acc, entries, field) ==
    IF entries = <<>> \/ acc.threw
    THEN acc
    ELSE LET e == Head(entries)
             name == FieldOf(e, field, "")
             cwd == FieldOf(e, "cwd", NoCwd)
             seeds == /\ name # ""
                      /\ cwd # NoCwd
                      /\ name # Basename(cwd)
                      /\ ~(cwd \in DOMAIN acc.names /\ acc.names[cwd] # "")
         IN IF IsNull(e)
            THEN [acc EXCEPT !.threw = TRUE]
            ELSE MigrateFrom(IF seeds
                             THEN [acc EXCEPT !.names = Put(acc.names, cwd, name),
                                              !.migrated = TRUE]
                             ELSE acc,
                             Tail(entries), field)

\* migrateToDirectoryNames: saved terminals by title, then favorites by name
migrateToDirectoryNames(names, saved, favs) ==
    MigrateFrom(MigrateFrom([names |-> names, migrated |-> FALSE, threw |-> FALSE],
                            saved, "title"),
                favs, "name")

(* app.whenReady().then(...): createWindow, the three loads, the migration and the
   order; a throw in the migration rejects the promise and skips what follows it *)
WhenReady ==
    /\ phase = "starting"
    /\ LET result == migrateToDirectoryNames(Loaded("names"), Loaded("terminals"),
                                             Loaded("favorites"))
       IN /\ mainWindow' = TRUE
          /\ savedTerminals' = Loaded("terminals")
          /\ favorites' = Loaded("favorites")
          /\ directoryNames' = result.names
          /\ pendingWrites' = IF result.migrated /\ ~result.threw
                              THEN persistDirectoryNames
                              ELSE pendingWrites
          /\ terminalOrder' = IF result.threw
                              THEN terminalOrder
                              ELSE KeysAsc(DOMAIN terminals)
          /\ last' = Op("whenReady", 0, ~result.threw, "")
    /\ phase' = "running"
    /\ UNCHANGED <<terminals, nextId, recentExits, ptys, exitedSent, dataSent, now, disk,
                   histVars, peerVars>>

(* Shutdown and the next run *)

(* app.on('window-all-closed') up to its await: persistTerminals() is called and the
   handler waits for it; the window that closed is destroyed *)
WindowAllClosedBegins ==
    /\ phase = "running"
    /\ phase' = "closing"
    /\ mainWindow' = FALSE
    /\ pendingWrites' = Append(pendingWrites, [file |-> "terminals", data |-> TerminalEntries,
                                               awaited |-> TRUE])
    /\ hAtShutdown' = [k \in 1..Cardinality(DOMAIN terminals) |->
                          [cwd |-> terminals[KeysAsc(DOMAIN terminals)[k]].cwd]]
    /\ last' = Op("windowAllClosed", 0, TRUE, "")
    /\ UNCHANGED <<terminals, nextId, savedTerminals, terminalOrder, directoryNames,
                   recentExits, ptys, exitedSent, dataSent, favorites, now, disk,
                   hCreated, hEnded, hExits, peerVars>>

(* app.on('window-all-closed') after its await: the awaited write settled, written or
   not; every live pty is killed, the map is cleared and app.quit() is called *)
WindowAllClosedResumes(k, written) ==
    /\ phase = "closing"
    /\ k \in DOMAIN pendingWrites
    /\ "awaited" \in DOMAIN pendingWrites[k]
    /\ pendingWrites' = [j \in 1..(Len(pendingWrites) - 1) |->
                            IF j < k THEN pendingWrites[j] ELSE pendingWrites[j + 1]]
    /\ disk' = IF written
               THEN [disk EXCEPT !.terminals = pendingWrites[k].data,
                                 !.shape.terminals = "ok"]
               ELSE disk
    /\ ptys' = [id \in DOMAIN ptys |->
                   IF id \in DOMAIN terminals
                   THEN [ptys[id] EXCEPT !.state = "killed"]
                   ELSE ptys[id]]
    /\ terminals' = <<>>
    /\ phase' = "quit"
    /\ last' = Op("quit", 0, TRUE, "")
    /\ UNCHANGED <<nextId, savedTerminals, terminalOrder, directoryNames, recentExits,
                   exitedSent, mainWindow, dataSent, favorites, now, histVars, peerVars>>

(* The process has ended and the application is launched again: the module-level
   state is what main.js declares, the files are what the last run left; a write that
   had not settled when the process ended is taken as failed *)
Relaunch ==
    /\ phase = "quit"
    /\ pendingWrites = <<>>
    /\ terminals' = <<>>
    /\ nextId' = 1
    /\ savedTerminals' = <<>>
    /\ terminalOrder' = <<>>
    /\ directoryNames' = <<>>
    /\ recentExits' = <<>>
    /\ ptys' = <<>>
    /\ exitedSent' = <<>>
    /\ mainWindow' = FALSE
    /\ favorites' = <<>>
    /\ phase' = "starting"
    /\ dataSent' = <<>>
    /\ hCreated' = <<>>
    /\ hEnded' = {}
    /\ hExits' = <<>>
    /\ last' = Op("relaunch", 0, TRUE, "")
    /\ UNCHANGED <<now, pendingWrites, disk, hAtShutdown, peerVars>>

Ids == 1..MaxId
OrderInputs == SeqsUpTo(Ids, 2)
Settled == pendingWrites = <<>>

Next ==
    \/ /\ nextId <= MaxId
       /\ Settled
       /\ \E cwd \in CwdInputs, spawns \in BOOLEAN : CreateTerminal(cwd, spawns)
    \/ \E id \in Ids, exitCode \in ExitCodes : OnExit(id, exitCode)
    \/ Settled /\ \E id \in Ids : KillTerminal(id)
    \/ Settled /\ \E order \in OrderInputs : SetTerminalOrder(order)
    \/ Settled /\ \E index \in -1..MaxGhosts : RemoveSavedTerminal(index)
    \/ WriteSettles(1, TRUE)

Spec == Init /\ [][Next]_vars

(* The naming specification: sessions, renames and the exit records *)
NextNames ==
    \/ /\ nextId <= MaxId
       /\ Settled
       /\ \E cwd \in CwdInputs, spawns \in BOOLEAN : CreateTerminal(cwd, spawns)
    \/ \E id \in Ids, exitCode \in ExitCodes : OnExit(id, exitCode)
    \/ Settled /\ \E id \in Ids : KillTerminal(id)
    \/ Settled /\ \E ghost \in BOOLEAN, n \in 0..MaxId, newTitle \in NameInputs :
            RenameTerminal(ghost, n, newTitle)
    \/ Settled /\ \E cwd \in CwdInputs, newName \in NameInputs : RenameDirectory(cwd, newName)
    \/ WriteSettles(1, TRUE)

SpecNames == Init /\ [][NextNames]_vars

(* The exit-history specification: many sessions in one directory, each spawned
   once the process of the previous one has exited, with the clock advancing *)
Active == {id \in DOMAIN ptys : ptys[id].state # "exited"}

InitEmpty == Init /\ savedTerminals = <<>>

NextHist ==
    \/ /\ nextId <= MaxIdHist
       /\ Settled
       /\ Active = {}
       /\ CreateTerminal(PathA, TRUE)
    \/ \E id \in 1..MaxIdHist : OnExit(id, 0)
    \/ Settled /\ \E id \in DOMAIN terminals : KillTerminal(id)
    \/ now < MaxClock /\ Tick
    \/ WriteSettles(1, TRUE)

SpecHist == InitEmpty /\ [][NextHist]_vars

(* The tail-buffer specification: one session whose process writes chunks of output *)
NextTail ==
    \/ /\ ptys = <<>>
       /\ Settled
       /\ CreateTerminal(PathA, TRUE)
    \/ \E id \in DOMAIN ptys, n \in ChunkLens :
            ptys[id].chunks < MaxChunks /\ OnData(id, n)
    \/ \E id \in DOMAIN ptys : OnExit(id, 0)
    \/ Settled /\ \E id \in DOMAIN terminals : KillTerminal(id)
    \/ now < MaxClock /\ Tick
    \/ WriteSettles(1, TRUE)

SpecTail == InitEmpty /\ [][NextTail]_vars

(* The creation specification: sessions in /tmp/a and in the home directory, with
   both directories renamed at any time *)
NextCreate ==
    \/ /\ nextId <= MaxId
       /\ Settled
       /\ \E cwd \in CwdInputs, spawns \in BOOLEAN : CreateTerminal(cwd, spawns)
    \/ \E id \in DOMAIN ptys : OnExit(id, 0)
    \/ Settled /\ \E id \in DOMAIN terminals : KillTerminal(id)
    \/ Settled /\ \E cwd \in DirInputs, newName \in NameInputs : RenameDirectory(cwd, newName)
    \/ WriteSettles(1, TRUE)

SpecCreate == InitEmpty /\ [][NextCreate]_vars

(* The ghost specification: startup loaded ghosts of two directories, in any order;
   ghosts are removed by index while sessions come and go *)
StoredGhostLists ==
    {[k \in 1..Len(s) |-> [cwd |-> s[k]]] : s \in SeqsUpTo({PathA, PathB}, MaxStored)}

InitStored == StartedWith(StoredGhostLists, {<<>>})

NextGhosts ==
    \/ /\ nextId <= MaxId
       /\ Settled
       /\ CreateTerminal(PathA, TRUE)
    \/ \E id \in DOMAIN ptys : OnExit(id, 0)
    \/ Settled /\ \E id \in DOMAIN terminals : KillTerminal(id)
    \/ Settled /\ \E index \in -1..MaxStored : RemoveSavedTerminal(index)
    \/ WriteSettles(1, TRUE)

SpecGhosts == InitStored /\ [][NextGhosts]_vars

(* The registry specification: two directories, each with a ghost and a favorite,
   and one session; the directories are renamed through the three rename handlers,
   also to the empty name *)
PairOfBoth == <<[cwd |-> PathA], [cwd |-> PathB]>>

InitRegistry == StartedWith({PairOfBoth}, {PairOfBoth})

NextRegistry ==
    \/ /\ ptys = <<>>
       /\ Settled
       /\ \E cwd \in RegistryDirs : CreateTerminal(cwd, TRUE)
    \/ \E id \in DOMAIN ptys : OnExit(id, 0)
    \/ Settled /\ \E id \in DOMAIN terminals : KillTerminal(id)
    \/ Settled /\ \E ghost \in BOOLEAN, n \in 0..MaxId, newTitle \in NameInputs \cup {""} :
            RenameTerminal(ghost, n, newTitle)
    \/ Settled /\ \E cwd \in RegistryDirs, newName \in NameInputs \cup {""} :
            RenameDirectory(cwd, newName)
    \/ Settled /\ \E cwd \in RegistryDirs, newName \in NameInputs \cup {""} :
            RenameFavorite(cwd, newName)
    \/ WriteSettles(1, TRUE)

SpecRegistry == InitRegistry /\ [][NextRegistry]_vars

(* The rename specification: two directories renamed to two names, with requests
   that name no directory or no name *)
NextRename ==
    \/ Settled /\ \E cwd \in RegistryDirs \cup {NoCwd}, newName \in RegistryNames :
            RenameDirectory(cwd, newName)
    \/ Settled /\ \E cwd \in RegistryDirs \cup {NoCwd}, newName \in RegistryNames :
            RenameFavorite(cwd, newName)
    \/ WriteSettles(1, TRUE)

SpecRename == InitEmpty /\ [][NextRename]_vars

(* The favorites specification: startup loaded a list of favorites without
   duplicates; directories are added, with and without a name, and removed *)
FavoriteNames == {"", "a", "Alpha"}

StoredFavoriteLists ==
    {[k \in 1..Len(s) |-> [cwd |-> s[k]]] :
        s \in {t \in SeqsUpTo(RegistryDirs, 2) : \A i, j \in DOMAIN t : i # j => t[i] # t[j]}}

InitFavorites == StartedWith({<<>>}, StoredFavoriteLists)

NextFavorites ==
    \/ Settled /\ \E name \in FavoriteNames, cwd \in RegistryDirs : AddFavorite(name, cwd)
    \/ Settled /\ \E cwd \in RegistryDirs : RemoveFavorite(cwd)
    \/ WriteSettles(1, TRUE)

SpecFavorites == InitFavorites /\ [][NextFavorites]_vars

(* The store specification: one session, the ghosts and the favorites, with every
   request that writes a file; a write is written or fails *)
NextStore ==
    \/ /\ ptys = <<>>
       /\ Settled
       /\ CreateTerminal(PathA, TRUE)
    \/ \E id \in DOMAIN ptys : OnExit(id, 0)
    \/ Settled /\ \E id \in DOMAIN terminals : KillTerminal(id)
    \/ Settled /\ \E order \in {<<>>, <<1>>} : SetTerminalOrder(order)
    \/ Settled /\ \E index \in 0..MaxGhosts : RemoveSavedTerminal(index)
    \/ Settled /\ \E newTitle \in NameInputs : RenameTerminal(FALSE, 1, newTitle)
    \/ Settled /\ \E newName \in NameInputs : RenameDirectory(PathB, newName)
    \/ Settled /\ \E name \in NameInputs : AddFavorite(name, PathB)
    \/ Settled /\ RemoveFavorite(PathB)
    \/ \E written \in BOOLEAN : WriteSettles(1, written)

SpecStore == Init /\ [][NextStore]_vars

(* The startup specification: the three files hold anything; after startup
   directories are renamed *)
StoredTerminalFiles ==
    {<<>>, <<[cwd |-> PathA]>>, <<[title |-> "Alpha", cwd |-> PathA]>>, <<NullEntry>>}
StoredFavoriteFiles ==
    {<<>>, <<[cwd |-> PathA]>>, <<[name |-> "Beta", cwd |-> PathA]>>, <<NullEntry>>}
StoredNameFiles == {<<>>, Put(<<>>, PathA, "Gamma")}

\* the content of a file that does not give its container is never looked at
FilesOf(contents) ==
    {[shape |-> "ok", data |-> c] : c \in contents} \cup
    {[shape |-> sh, data |-> <<>>] : sh \in FileShapes \ {"ok"}}

InitStarting ==
    /\ terminals = <<>>
    /\ nextId = 1
    /\ savedTerminals = <<>>
    /\ terminalOrder = <<>>
    /\ directoryNames = <<>>
    /\ recentExits = <<>>
    /\ ptys = <<>>
    /\ exitedSent = <<>>
    /\ mainWindow = FALSE
    /\ favorites = <<>>
    /\ phase = "starting"
    /\ dataSent = <<>>
    /\ now = 0
    /\ pendingWrites = <<>>
    /\ \E t \in FilesOf(StoredTerminalFiles), n \in FilesOf(StoredNameFiles),
          f \in FilesOf(StoredFavoriteFiles) :
           disk = [terminals |-> t.data, names |-> n.data, favorites |-> f.data,
                   shape |-> [terminals |-> t.shape, names |-> n.shape,
                              favorites |-> f.shape]]
    /\ last = Op("init", 0, TRUE, "")
    /\ hCreated = <<>>
    /\ hEnded = {}
    /\ hExits = <<>>
    /\ hAtShutdown = <<>>
    /\ RendererLoaded
    /\ ServersStarted(<<>>, [p \in Servers |-> 0])

NextStartup ==
    \/ WhenReady
    \/ /\ phase = "running"
       /\ Settled
       /\ \E newName \in NameInputs : RenameDirectory(PathB, newName)
    \/ \E written \in BOOLEAN : WriteSettles(1, written)

SpecStartup == InitStarting /\ [][NextStartup]_vars

(* The shutdown specification: sessions are created and killed with their writes in
   flight, settling in any order; the window closes, the application quits and is
   launched again *)
NextShutdown ==
    \/ /\ phase = "running"
       /\ Len(pendingWrites) < MaxPending
       /\ nextId <= MaxId
       /\ Len(savedTerminals) <= MaxGhosts
       /\ CreateTerminal(PathA, TRUE)
    \/ /\ phase = "running"
       /\ Len(pendingWrites) < MaxPending
       /\ \E id \in DOMAIN terminals : KillTerminal(id)
    \/ \E id \in DOMAIN ptys : ptys[id].state = "killed" /\ OnExit(id, 0)
    \/ \E k \in DOMAIN pendingWrites : WriteSettles(k, TRUE)
    \/ WindowAllClosedBegins
    \/ \E k \in DOMAIN pendingWrites : WindowAllClosedResumes(k, TRUE)
    \/ Relaunch
    \/ WhenReady

SpecShutdown == Init /\ [][NextShutdown]_vars

(* The output specification: the processes of two sessions write short chunks while
   the clock advances; the window closes in the end *)
DataLens == {1, 2}

\* the output events of the processes of ids, in all
RECURSIVE ChunksWritten(_)
ChunksWritten(ids) ==
    IF ids = <<>> THEN 0 ELSE ptys[Head(ids)].chunks + ChunksWritten(Tail(ids))

NextData ==
    \/ /\ phase = "running"
       /\ nextId <= MaxId
       /\ Settled
       /\ CreateTerminal(PathA, TRUE)
    \/ \E id \in DOMAIN ptys, n \in DataLens :
            ChunksWritten(KeysAsc(DOMAIN ptys)) < MaxData /\ OnData(id, n)
    \/ now < MaxClock /\ Tick
    \/ WriteSettles(1, TRUE)
    \/ Settled /\ WindowAllClosedBegins
    \/ WindowAllClosedResumes(1, TRUE)

SpecData == InitEmpty /\ [][NextData]_vars

(* The late output specification: two sessions write, are killed and go on writing
   until their processes exit *)
NextLate ==
    \/ /\ nextId <= MaxId
       /\ Settled
       /\ CreateTerminal(PathA, TRUE)
    \/ \E id \in DOMAIN ptys :
            ChunksWritten(KeysAsc(DOMAIN ptys)) < MaxData /\ OnData(id, 1)
    \/ Settled /\ \E id \in DOMAIN terminals : KillTerminal(id)
    \/ \E id \in DOMAIN ptys : ptys[id].state = "killed" /\ OnExit(id, 0)
    \/ now < MaxClock /\ Tick
    \/ WriteSettles(1, TRUE)

SpecLate == InitEmpty /\ [][NextLate]_vars

(* The termination specification: sessions are created, killed and exit, and the
   process of a killed session terminates, so that its onExit callback runs *)
KilledExits(id) ==
    /\ id \in DOMAIN ptys
    /\ ptys[id].state = "killed"
    /\ \E exitCode \in ExitCodes : OnExit(id, exitCode)

NextLive ==
    \/ /\ nextId <= MaxId
       /\ Settled
       /\ CreateTerminal(PathA, TRUE)
    \/ Settled /\ \E id \in DOMAIN terminals : KillTerminal(id)
    \/ \E id \in DOMAIN terminals, exitCode \in ExitCodes : OnExit(id, exitCode)
    \/ \E id \in Ids : KilledExits(id)
    \/ WriteSettles(1, TRUE)

SpecLive == InitEmpty /\ [][NextLive]_vars /\ \A id \in Ids : WF_vars(KilledExits(id))

(* The scratchpad specification: the file tools are called with paths inside the
   scratchpad and outside it, in any order *)
NextFiles ==
    \/ \E relativePath \in PathInputs : ReadFile(relativePath)
    \/ \E relativePath \in PathInputs, content \in {"new"} :
            WriteFile(relativePath, content)
    \/ \E relativePath \in PathInputs : DeleteFile(relativePath)

SpecFiles == InitEmpty /\ [][NextFiles]_vars

(* The log specification: one server appends to its channel log *)
NextLog ==
    \/ /\ servers[1].sent < MaxAppends
       /\ \E project \in {"a", ".."}, entry \in EntryInputs(1, servers[1].sent + 1) :
              AppendLog(1, project, entry)
    \/ TrimLogReads(1)
    \/ TrimLogWrites(1)

SpecLog == InitEmpty /\ [][NextLog]_vars

(* The shared log specification: two terminals of one directory, so two servers of one
   terminalName, append to a log that holds MAX_LOG_LINES lines of the first *)
InitShared ==
    /\ MainStarted({<<>>}, {<<>>})
    /\ RendererLoaded
    /\ ServersStarted([k \in 1..MAX_LOG_LINES |->
                          [seq |-> k, by |-> 1, _from |-> terminalName, _ts |-> 0]],
                      [p \in Servers |-> IF p = 1 THEN MAX_LOG_LINES ELSE 0])

NextShared ==
    \/ /\ Len(hAppended) < MAX_LOG_LINES + MaxShared
       /\ \E p \in Servers : \E entry \in EntryInputs(p, servers[p].sent + 1) :
              AppendLog(p, "a", entry)
    \/ \E p \in Servers : TrimLogReads(p)
    \/ \E p \in Servers : TrimLogWrites(p)

SpecShared == InitShared /\ [][NextShared]_vars

(* The view specification: a session is added when none is live, sessions are shown,
   killed and exit while the user switches between the terminals and the special views *)
NextViews ==
    \/ /\ Settled
       /\ Unsuspended
       /\ nextId <= MaxId
       /\ terminals = <<>>
       /\ AddTerminalClicked(PathA, TRUE)
    \/ \E k \in DOMAIN awaiting : SpawnedActivates(k)
    \/ RefreshList
    \/ \E row \in DOMAIN listed : ActivateTerminal(row)
    \/ \E viewId \in {"dashboard", "favorites", "dude"} :
            (viewId = "dashboard" => nextTimer <= MaxTimers) /\ ActivateView(viewId)
    \/ /\ Settled
       /\ Unsuspended
       /\ \E row \in DOMAIN listed : KillClicked(row)
    \/ \E k \in DOMAIN awaiting : KillReplied(k)
    \/ /\ Len(awaiting) < MaxAwaiting
       /\ \E id \in DOMAIN ptys : PtyExits(id, 0)
    \/ \E k \in DOMAIN awaiting : ExitReceived(k)
    \/ WriteSettles(1, TRUE)

SpecViews == InitEmpty /\ [][NextViews]_vars

(* The migration specification: the files come from a version that stored names with
   the entries; the directory is renamed through its ghost, sessions, ghosts and
   favorites come and go, and the application quits and is launched again *)
InitLegacy ==
    /\ InitStarting
    /\ disk.shape = AllParse
    /\ disk.terminals = <<[cwd |-> PathA]>>
    /\ disk.favorites = <<[name |-> "Beta", cwd |-> PathA]>>

\* the window is open and no write is in flight
Idle == phase = "running" /\ pendingWrites = <<>>

NextMigration ==
    \/ WhenReady
    \/ Idle /\ \E newTitle \in NameInputs \cup {""} : RenameTerminal(TRUE, 0, newTitle)
    \/ Idle /\ RemoveSavedTerminal(0)
    \/ Idle /\ RemoveFavorite(PathA)
    \/ Idle /\ ptys = <<>> /\ Len(savedTerminals) <= MaxGhosts /\ CreateTerminal(PathB, TRUE)
    \/ Idle /\ \E id \in DOMAIN terminals : KillTerminal(id)
    \/ Idle /\ WindowAllClosedBegins
    \/ \E id \in DOMAIN ptys : OnExit(id, 0)
    \/ WriteSettles(1, TRUE)
    \/ WindowAllClosedResumes(1, TRUE)
    \/ Relaunch

SpecMigration == InitLegacy /\ [][NextMigration]_vars

(* The frame specification: one session and the ghost are renamed, also to the empty
   title, while directories become favorites, with and without a name, and cease to be *)
NextFrame ==
    \/ Settled /\ ptys = <<>> /\ CreateTerminal(PathA, TRUE)
    \/ Settled /\ \E id \in DOMAIN terminals : KillTerminal(id)
    \/ \E id \in DOMAIN ptys : OnExit(id, 0)
    \/ Settled /\ \E newTitle \in NameInputs \cup {""} : RenameTerminal(FALSE, 1, newTitle)
    \/ Settled /\ \E newTitle \in NameInputs \cup {""} : RenameTerminal(TRUE, 0, newTitle)
    \/ Settled /\ \E name \in FavoriteNames, cwd \in RegistryDirs : AddFavorite(name, cwd)
    \/ Settled /\ \E cwd \in RegistryDirs : RemoveFavorite(cwd)
    \/ WriteSettles(1, TRUE)

SpecFrame == Init /\ [][NextFrame]_vars

(* The input specification: sessions in one directory, with input and resize
   requests for live, killed, exited and unknown ids *)
NextInput ==
    \/ /\ nextId <= MaxId
       /\ Settled
       /\ CreateTerminal(PathA, TRUE)
    \/ \E id \in DOMAIN ptys : OnExit(id, 0)
    \/ Settled /\ \E id \in DOMAIN terminals : KillTerminal(id)
    \/ \E id \in Ids, data \in InputData :
            /\ id \in DOMAIN terminals => Len(ptys[id].stdin) < MaxInputs
            /\ TerminalInput(id, data)
    \/ \E id \in Ids, size \in SizeInputs : TerminalResize(id, size[1], size[2])
    \/ WriteSettles(1, TRUE)

SpecInput == InitEmpty /\ [][NextInput]_vars

----------------------------------------------------------------------------
(* The promotion specification: the sidebar lists the ghosts of a stored file, the user
   removes ghosts, promotes them and adds sessions, and the list is redrawn whenever a
   refresh completes *)
\* the ghost lists the sidebar starts from: one ghost, two of one directory, and ghosts
\* of two directories in an order that a removal shifts
InitPromote ==
    StartedWith({[k \in 1..Len(s) |-> [cwd |-> s[k]]] :
                    s \in {<<PathA>>, <<PathA, PathA>>, <<PathB, PathA>>,
                           <<PathB, PathA, PathB>>}},
                {<<>>})

NextPromote ==
    \/ RefreshList
    \/ Settled /\ \E row \in DOMAIN listed : RemoveGhostClicked(row)
    \/ /\ Settled
       /\ Unsuspended
       /\ \E row \in DOMAIN listed : SpawnGhostClicked(row)
    \/ /\ Settled
       /\ nextId <= MaxId
       /\ \E k \in DOMAIN awaiting, spawns \in BOOLEAN : SpawnGhostCreates(k, spawns)
    \/ /\ Settled
       /\ Unsuspended
       /\ nextId <= MaxId
       /\ AddTerminalClicked(PathA, TRUE)
    \/ \E k \in DOMAIN awaiting : SpawnedActivates(k)
    \/ WriteSettles(1, TRUE)

SpecPromote == InitPromote /\ [][NextPromote]_vars

----------------------------------------------------------------------------
(* Properties *)

\* the positions of s that hold a member of S, and the subsequence of s at positions P
KeptPositions(s, S) == {i \in DOMAIN s : s[i] \in S}
SubAt(s, P) ==
    [k \in 1..Cardinality(P) |->
        s[CHOOSE i \in P : Cardinality({j \in P : j < i}) = k - 1]]
Occurrences(s, x) == Cardinality({i \in DOMAIN s : s[i] = x})

\* C1: the live map holds exactly the ids returned by successful create-terminal calls
\* and not since killed or exited; the ids returned are strictly increasing, so none is
\* handed out twice, and every id still to be handed out is larger than all of them.
C1_LiveIdsAreCreatedNotEnded ==
    /\ DOMAIN terminals = Range(hCreated) \ hEnded
    /\ \A i, j \in DOMAIN hCreated : i < j => hCreated[i] < hCreated[j]
    /\ \A i \in DOMAIN hCreated : hCreated[i] < nextId

\* a second id was handed out after the first session was removed
C1_Witness ==
    /\ hCreated = <<1, 2>>
    /\ hEnded = {1}
    /\ DOMAIN terminals = {2}

\* C2: terminalOrder holds exactly the live ids, each exactly once.
C2_OrderIsExactlyLiveIds ==
    /\ Range(terminalOrder) = DOMAIN terminals
    /\ \A id \in DOMAIN terminals : Occurrences(terminalOrder, id) = 1

\* C3: set-terminal-order stores the requested sequence restricted to the ids live at
\* the call, in the requested relative order; it adds nothing to the live map and
\* returns success.
C3_ReorderKeepsLiveRequestedIds ==
    [][\A order \in OrderInputs :
          SetTerminalOrder(order) =>
              /\ terminalOrder' = SubAt(order, KeptPositions(order, DOMAIN terminals))
              /\ Range(terminalOrder') \subseteq DOMAIN terminals
              /\ terminals' = terminals
              /\ last'.ok]_vars

\* reorder([1,2]) when only id 2 is live gave [2]
C3_Witness ==
    /\ last.op = "order"
    /\ last.order = <<1, 2>>
    /\ DOMAIN terminals = {2}
    /\ terminalOrder = <<2>>

\* C4: a process that has exited has exactly one record in the exit history and exactly
\* one 'terminal-exited' message, a process that has not exited has none, and no id is
\* twice in the history; an exit handler that runs for an id a kill already removed
\* leaves the live map and the order as they are.
C4_OneExitRecordAndMessagePerId ==
    /\ [](\A id \in DOMAIN ptys :
            LET records == Cardinality({k \in DOMAIN recentExits : recentExits[k].id = id})
                expected == IF ptys[id].state = "exited" THEN 1 ELSE 0
            IN records = expected /\ Count(exitedSent, id) = expected)
    /\ [][\A id \in Ids, exitCode \in ExitCodes :
            (OnExit(id, exitCode) /\ id \notin DOMAIN terminals) =>
                (terminals' = terminals /\ terminalOrder' = terminalOrder)]_vars

\* the exit event of a killed session arrived after the kill had removed it
C4_Witness ==
    /\ last.op = "exit"
    /\ ~last.live
    /\ ptys[last.id].state = "exited"
    /\ recentExits[1].id = last.id
    /\ terminals # <<>>

\* C5: the title of the record placed in the exit history for a session in /tmp/a is
\* the name the registry resolves for /tmp/a when the exit handler runs, so a rename
\* made while the session was live is in the record.
C5_ExitTitleResolvedAtExit ==
    (last.op = "exit" /\ ptys[last.id].cwd = PathA) =>
        recentExits[1].title = resolveDirectoryName(PathA)

\* C6: kill-terminal on a live id signals the process and, in the same step and before
\* any exit event, removes the id from the live map, the order and the listing; every
\* other session keeps its entry and the others keep their relative order.
C6_KillDeregistersEagerly ==
    [][\A id \in Ids :
          (KillTerminal(id) /\ id \in DOMAIN terminals) =>
              /\ ptys'[id].state = "killed"
              /\ recentExits' = recentExits
              /\ DOMAIN terminals' = (DOMAIN terminals) \ {id}
              /\ \A other \in DOMAIN terminals' : terminals'[other] = terminals[other]
              /\ terminalOrder' =
                     SubAt(terminalOrder, KeptPositions(terminalOrder, Ids \ {id}))
              /\ \A k \in DOMAIN GetTerminals' : GetTerminals'[k].id # <<"id", id>>
              /\ last'.ok]_vars

\* a live session was killed, its process has not exited, another session is live
C6_Witness ==
    /\ last.op = "kill"
    /\ last.live
    /\ ptys[last.id].state = "killed"
    /\ last.id \notin DOMAIN terminals
    /\ terminals # <<>>

\* C7: kill-terminal for an id that is not in the live map returns success, changes no
\* program state and issues no write.
C7_KillOfDeadIdIsNoOp ==
    [][\A id \in Ids :
          (KillTerminal(id) /\ id \notin DOMAIN terminals) =>
              (UNCHANGED progVars /\ last'.ok)]_vars

\* an id already killed, whose process is still to exit, was killed a second time
C7_Witness ==
    /\ last.op = "kill"
    /\ ~last.live
    /\ last.id \in DOMAIN ptys
    /\ ptys[last.id].state = "killed"

\* C8: the exit history holds the MAX_RECENT_EXITS most recent exits and no more, the
\* most recent first: its k-th record is that of the k-th last exit event, and the
\* timestamps never increase from the head on.
C8_HistoryIsLatestExitsNewestFirst ==
    LET n == Len(hExits)
        m == Len(recentExits)
    IN /\ m <= MAX_RECENT_EXITS
       /\ m = IF n < MAX_RECENT_EXITS THEN n ELSE MAX_RECENT_EXITS
       /\ \A k \in 1..m : recentExits[k].id = hExits[n - k + 1]
       /\ \A k \in 1..(m - 1) : recentExits[k].timestamp >= recentExits[k + 1].timestamp

\* one exit more than the history holds: the record of the first exit was dropped, and
\* the clock advanced between two exits that are in the history
C8_Witness ==
    /\ Len(hExits) = MAX_RECENT_EXITS + 1
    /\ Len(recentExits) = MAX_RECENT_EXITS
    /\ recentExits[1].id = hExits[Len(hExits)]
    /\ recentExits[MAX_RECENT_EXITS].id = hExits[2]
    /\ recentExits[1].timestamp > recentExits[MAX_RECENT_EXITS].timestamp

\* C9: the record the exit handler places at the head of the exit history holds the id
\* of the session, the title resolved for its directory and the exit code of the process.
C9_ExitRecordOfSession ==
    last.op = "exit" =>
        /\ recentExits[1].id = last.id
        /\ recentExits[1].title = resolveDirectoryName(ptys[last.id].cwd)
        /\ recentExits[1].exitCode = last.exitCode

\* C10: the tail buffer of a live session holds at most TAIL_BUFFER_SIZE units, and
\* while its process has written at most TAIL_BUFFER_SIZE units in all, the buffer is
\* the whole output.
C10_TailBufferBoundedAndWholeUntilFull ==
    \A id \in DOMAIN terminals :
        /\ Len(terminals[id].tailBuffer) <= TAIL_BUFFER_SIZE
        /\ ptys[id].total <= TAIL_BUFFER_SIZE =>
               terminals[id].tailBuffer = Chunk(0, ptys[id].total)

\* a live session whose process wrote more than the buffer holds, in several chunks
C10_Witness ==
    \E id \in DOMAIN terminals :
        /\ ptys[id].total > TAIL_BUFFER_SIZE
        /\ ptys[id].chunks > 1
        /\ Len(terminals[id].tailBuffer) = TAIL_BUFFER_SIZE

\* C11: the tail text the dashboard data reports for a live session is the last
\* min(TAIL_BUFFER_SIZE, total) units of everything its process has written, whatever
\* the sizes of the chunks the output arrived in.
C11_TailIsEndOfWholeOutput ==
    \A k \in DOMAIN GetDashboardData.terminals :
        LET entry == GetDashboardData.terminals[k]
            total == ptys[entry.id].total
            kept == IF total < TAIL_BUFFER_SIZE THEN total ELSE TAIL_BUFFER_SIZE
        IN entry.tailText = [j \in 1..kept |-> total - kept + j]

\* the first output of a live session was a single chunk longer than the buffer
C11_Witness ==
    \E id \in DOMAIN terminals :
        /\ ptys[id].chunks = 1
        /\ ptys[id].total > TAIL_BUFFER_SIZE
        /\ GetDashboardData.terminals[1].tailText[1] = ptys[id].total - TAIL_BUFFER_SIZE + 1

\* C12: terminal-input and terminal-resize reach the process of the id only when the
\* id is in the live map, and then that process is running and no other is touched; for
\* any other id (never handed out, killed and still to exit, or exited) they throw
\* nothing, reach no process and change no program state.
C12_InputAndResizeReachLiveOnly ==
    [][/\ \A id \in Ids, data \in InputData :
             TerminalInput(id, data) =>
                 IF id \in DOMAIN terminals
                 THEN /\ ptys[id].state = "running"
                      /\ ptys' = [ptys EXCEPT ![id].stdin = Append(@, data)]
                 ELSE UNCHANGED progVars /\ last'.ok
       /\ \A id \in Ids, size \in SizeInputs :
             TerminalResize(id, size[1], size[2]) =>
                 IF id \in DOMAIN terminals
                 THEN /\ ptys[id].state = "running"
                      /\ ptys' = [ptys EXCEPT ![id].cols = size[1], ![id].rows = size[2]]
                 ELSE UNCHANGED progVars /\ last'.ok]_vars

\* input was sent to an id whose exit event had fired and reached no process, while
\* another session was live and had taken input
C12_Witness ==
    /\ last.op = "input"
    /\ ~last.live
    /\ last.id \in DOMAIN ptys
    /\ ptys[last.id].state = "exited"
    /\ ptys[last.id].stdin = <<>>
    /\ \E other \in DOMAIN terminals : ptys[other].stdin # <<>>

\* C13: when pty.spawn throws, create-terminal fails to its caller and registers
\* nothing: the live map, the order, the ghosts, the exit history, the name registry
\* and the favorites are as before, no process exists whose handlers could run, no
\* window message is sent and no write is issued.
C13_FailedSpawnRegistersNothing ==
    [][\A cwd \in CwdInputs :
          CreateTerminal(cwd, FALSE) =>
              /\ ~last'.ok
              /\ UNCHANGED <<terminals, terminalOrder, savedTerminals, recentExits,
                             directoryNames, favorites, ptys, exitedSent, pendingWrites,
                             disk>>]_vars

\* a create failed while another session was live: that session is still listed
C13_Witness ==
    /\ last.op = "create"
    /\ ~last.ok
    /\ last.id \notin DOMAIN ptys
    /\ terminals # <<>>
    /\ terminalOrder = KeysAsc(DOMAIN terminals)
    /\ Len(GetTerminals) = Len(terminalOrder) + Len(savedTerminals)

\* C14: a create-terminal call whose spawn succeeds adds exactly one id, not live
\* before, to the live map with the given directory, or the home directory when none
\* is given; it leaves every other entry alone, appends the id to the order after the
\* ids already there, and returns the id, the directory and the name the registry
\* resolves for the directory at the call.
C14_CreateRegistersOneSessionAtTail ==
    [][\A cwd \in CwdInputs :
          CreateTerminal(cwd, TRUE) =>
              LET id == last'.id
              IN /\ last'.ok
                 /\ id \notin DOMAIN terminals
                 /\ DOMAIN terminals' = (DOMAIN terminals) \cup {id}
                 /\ \A other \in DOMAIN terminals : terminals'[other] = terminals[other]
                 /\ cwd # NoCwd => terminals'[id].cwd = cwd
                 /\ cwd = NoCwd => terminals'[id].cwd = HomeDir
                 /\ terminalOrder' = Append(terminalOrder, id)
                 /\ last'.cwd = terminals'[id].cwd
                 /\ last'.title = resolveDirectoryName(terminals'[id].cwd)]_vars

\* a second session was created with no directory after the home directory had been
\* renamed: it is at the tail of the order and its title is the registry's name
C14_Witness ==
    /\ last.op = "create"
    /\ last.ok
    /\ last.cwd = HomeDir
    /\ last.title = "Alpha"
    /\ Len(terminalOrder) = 2
    /\ terminalOrder[2] = last.id
    /\ terminals[terminalOrder[1]].cwd = PathA

\* C15: get-terminals lists every live session exactly once and before every ghost:
\* first the live ids in the order of terminalOrder, then the live ids terminalOrder
\* lacks, then the ghosts in stored order under the ids ghost-0, ghost-1, ..., which no
\* live id equals; every title is the name the registry resolves at the call.
C15_ListHasEachLiveOnceThenGhosts ==
    LET list == GetTerminals
        nLive == Cardinality(DOMAIN terminals)
        ordered == SubAt(terminalOrder, KeptPositions(terminalOrder, DOMAIN terminals))
        missing == KeysAsc((DOMAIN terminals) \ Range(terminalOrder))
        liveIds == ordered \o missing
    IN /\ Len(list) = nLive + Len(savedTerminals)
       /\ \A id \in DOMAIN terminals :
             Cardinality({k \in DOMAIN list : list[k].id = <<"id", id>>}) = 1
       /\ \A k \in DOMAIN list :
             /\ list[k].title = resolveDirectoryName(list[k].cwd)
             /\ list[k].ghost <=> k > nLive
             /\ k <= nLive =>
                    /\ k <= Len(liveIds)
                    /\ list[k].id = <<"id", liveIds[k]>>
                    /\ list[k].cwd = terminals[liveIds[k]].cwd
             /\ k > nLive =>
                    /\ list[k].id = <<"ghost", k - nLive - 1>>
                    /\ list[k].cwd = savedTerminals[k - nLive].cwd
                    /\ \A id \in DOMAIN terminals : list[k].id # <<"id", id>>

\* C16: remove-saved-terminal with an index of a ghost removes that ghost and keeps
\* the ghosts before and after it in their order; with any other index (negative, the
\* number of ghosts or more, any index when there is no ghost) it leaves the ghosts
\* alone and issues no write; either way it returns success and leaves the live map
\* and the order alone.
C16_RemoveGhostByIndexOrNothing ==
    [][\A index \in -1..MaxStored :
          RemoveSavedTerminal(index) =>
              /\ last'.ok
              /\ UNCHANGED <<terminals, terminalOrder>>
              /\ IF index >= 0 /\ index < Len(savedTerminals)
                 THEN savedTerminals' =
                          SubSeq(savedTerminals, 1, index) \o
                          SubSeq(savedTerminals, index + 2, Len(savedTerminals))
                 ELSE UNCHANGED progVars]_vars

\* of the ghosts /tmp/a, /tmp/b, /tmp/a loaded at startup, the one at index 1 was
\* removed while session 1 was live: the file still holds the session and the three
\* ghosts, the write of the new list is in flight
C16_Witness ==
    /\ last.op = "removeGhost"
    /\ last.id = 1
    /\ DOMAIN terminals = {1}
    /\ disk.terminals = <<[cwd |-> PathA],
                          [cwd |-> PathA], [cwd |-> PathB], [cwd |-> PathA]>>
    /\ savedTerminals = <<[cwd |-> PathA], [cwd |-> PathA]>>
    /\ Len(pendingWrites) = 1

\* C17: for every directory, resolveDirectoryName gives the stored name when the
\* registry has an entry for the directory, and the last segment of the path when it
\* has none.
C17_ResolveIsStoredNameOrBasename ==
    \A cwd \in RegistryDirs :
        IF cwd \in DOMAIN directoryNames
        THEN resolveDirectoryName(cwd) = directoryNames[cwd]
        ELSE resolveDirectoryName(cwd) = Basename(cwd)

\* C18 as stated: rename-directory and rename-favorite set the name of the directory
\* to the new name whatever the new name is.
C18_RenameSetsAnyName ==
    [][\A cwd \in RegistryDirs, newName \in RegistryNames :
          (RenameDirectory(cwd, newName) \/ RenameFavorite(cwd, newName)) =>
              /\ cwd \in DOMAIN directoryNames'
              /\ directoryNames'[cwd] = newName]_vars

\* C18 as amended: rename-directory and rename-favorite with a directory and a
\* non-empty new name set the name of the directory to the new name whatever name it
\* had, leave the names of the other directories alone, and the registry then resolves
\* the directory to the new name; a rename to the name the directory has leaves the
\* registry as it is; with no directory or an empty new name they change nothing and
\* issue no write; they always return success.
C18_RenameSetsNonEmptyName ==
    [][\A cwd \in RegistryDirs \cup {NoCwd}, newName \in RegistryNames :
          (RenameDirectory(cwd, newName) \/ RenameFavorite(cwd, newName)) =>
              /\ last'.ok
              /\ IF cwd # NoCwd /\ newName # ""
                 THEN /\ DOMAIN directoryNames' = (DOMAIN directoryNames) \cup {cwd}
                      /\ directoryNames'[cwd] = newName
                      /\ \A other \in (DOMAIN directoryNames) \ {cwd} :
                            directoryNames'[other] = directoryNames[other]
                      /\ resolveDirectoryName(cwd)' = newName
                      /\ (cwd \in DOMAIN directoryNames /\ directoryNames[cwd] = newName)
                            => directoryNames' = directoryNames
                 ELSE UNCHANGED progVars]_vars

\* /tmp/b, named Beta in the file, was renamed to Alpha, the name /tmp/a has
C18_Witness ==
    /\ last.op = "renameDirectory"
    /\ last.cwd = PathB
    /\ last.title = "Alpha"
    /\ PathB \in DOMAIN disk.names
    /\ disk.names[PathB] = "Beta"
    /\ DOMAIN directoryNames = {PathA, PathB}
    /\ directoryNames[PathA] = "Alpha"
    /\ directoryNames[PathB] = "Alpha"

\* C19: right after a rename handler has stored a name for a directory, get-terminals,
\* get-favorites and get-dashboard-data report every live session, ghost and favorite
\* of that directory under the new name, and every entry of another directory under
\* the name it had.
C19_RenameShownEverywhere ==
    [][LET cwd == last'.cwd
           name == last'.title
           renamed == /\ last'.op \in {"renameTerminal", "renameDirectory", "renameFavorite"}
                      /\ pendingWrites' = persistDirectoryNames
       IN renamed =>
              /\ \A k \in DOMAIN GetTerminals :
                    GetTerminals'[k].title =
                        IF GetTerminals[k].cwd = cwd THEN name ELSE GetTerminals[k].title
              /\ \A k \in DOMAIN GetFavorites :
                    GetFavorites'[k].name =
                        IF GetFavorites[k].cwd = cwd THEN name ELSE GetFavorites[k].name
              /\ \A k \in DOMAIN GetDashboardData.terminals :
                    GetDashboardData'.terminals[k].title =
                        IF GetDashboardData.terminals[k].cwd = cwd
                        THEN name
                        ELSE GetDashboardData.terminals[k].title]_vars

\* C20: the favorites hold at most one entry per directory; add-favorite for a
\* directory that is a favorite changes nothing, and remove-favorite for a directory
\* that is no favorite changes nothing and issues no write.
C20_OneFavoritePerDirectory ==
    /\ [](\A i, j \in DOMAIN favorites : i # j => favorites[i].cwd # favorites[j].cwd)
    /\ [][\A cwd \in RegistryDirs :
            LET isFavorite == cwd \in {favorites[k].cwd : k \in DOMAIN favorites}
            IN /\ \A name \in FavoriteNames :
                     (AddFavorite(name, cwd) /\ isFavorite) => UNCHANGED progVars
               /\ (RemoveFavorite(cwd) /\ ~isFavorite) => UNCHANGED progVars]_vars

\* /tmp/a, added as a favorite under the name Alpha after /tmp/b, was added again
\* and refused
C20_Witness ==
    /\ last.op = "addFavorite"
    /\ ~last.ok
    /\ last.cwd = PathA
    /\ favorites = <<[cwd |-> PathB], [cwd |-> PathA]>>
    /\ PathA \in DOMAIN directoryNames
    /\ directoryNames[PathA] = "Alpha"
    /\ pendingWrites = <<>>

\* the writes a step has issued
IssuedWrites == {pendingWrites'[k] : k \in (Len(pendingWrites) + 1)..Len(pendingWrites')}

\* C21: every step that changes the set of live sessions, the ghosts or the order
\* issues a write of terminals.json with the live sessions and ghosts it leaves, and
\* every step that changes the name registry issues a write of directory-names.json.
C21_MutationsIssueWrites ==
    [][/\ (\/ DOMAIN terminals' # DOMAIN terminals
           \/ savedTerminals' # savedTerminals
           \/ terminalOrder' # terminalOrder)
          => [file |-> "terminals", data |-> TerminalEntries'] \in IssuedWrites
       /\ directoryNames' # directoryNames
          => [file |-> "names", data |-> directoryNames'] \in IssuedWrites]_vars

\* C22: a write that fails changes nothing but the writes in flight: the state in
\* memory keeps what the request did, the result the request returned stands, nothing
\* is thrown, and the file keeps its content.
C22_FailedWriteKeepsMutation ==
    [][\A k \in DOMAIN pendingWrites :
          WriteSettles(k, FALSE) =>
              /\ UNCHANGED <<terminals, nextId, savedTerminals, terminalOrder,
                             directoryNames, recentExits, ptys, exitedSent, mainWindow,
                             favorites, phase, dataSent, now, disk>>
              /\ last' = last
              /\ last.ok]_vars

\* the write of create-terminal failed: the file lists the ghost only, session 1 is
\* live all the same, and a rename handled after that stored its name
C22_Witness ==
    /\ DOMAIN terminals = {1}
    /\ terminalOrder = <<1>>
    /\ Len(savedTerminals) = 1
    /\ disk.terminals = savedTerminals
    /\ last.op = "renameDirectory"
    /\ last.ok
    /\ PathB \in DOMAIN directoryNames
    /\ disk.names = <<>>
    /\ pendingWrites = <<>>

\* a stored entry as persistTerminals and add-favorite write them: an object with a
\* directory
WellFormedEntry(e) == ~IsNull(e) /\ FieldOf(e, "cwd", NoCwd) # NoCwd

\* C23: whatever the three files hold, startup completes, and a record whose file is
\* missing, unparsable or malformed starts empty while the others load.
C23_StartupSurvivesAnyFile ==
    last.op = "whenReady" =>
        /\ last.ok
        /\ \A e \in Range(savedTerminals) \cup Range(favorites) : WellFormedEntry(e)
        /\ disk.shape.terminals # "ok" => savedTerminals = <<>>
        /\ disk.shape.favorites # "ok" => favorites = <<>>

\* C24: every snapshot written to terminals.json has one entry per session live when
\* the write is issued, in the order of the map, then one entry per ghost in stored
\* order; the next startup loads exactly the entries of the file, in order, as the
\* ghost list, with no live session and an empty order.
C24_SnapshotIsLiveThenGhosts ==
    [][/\ \A w \in IssuedWrites :
              w.file = "terminals" =>
                  LET ids == KeysAsc(DOMAIN terminals')
                      n == Cardinality(DOMAIN terminals')
                  IN /\ Len(w.data) = n + Len(savedTerminals')
                     /\ \A i \in 1..n : w.data[i] = [cwd |-> terminals'[ids[i]].cwd]
                     /\ \A j \in DOMAIN savedTerminals' :
                            w.data[n + j] = [cwd |-> savedTerminals'[j].cwd]
       /\ (phase = "starting" /\ phase' = "running") =>
              /\ savedTerminals' = disk.terminals
              /\ terminals' = <<>>
              /\ terminalOrder' = <<>>]_vars

\* two sessions were live above a ghost when the window closed: the next run starts
\* with three ghosts, the sessions first, and nothing live
C24_Witness ==
    /\ last.op = "whenReady"
    /\ hAtShutdown = <<[cwd |-> PathA], [cwd |-> PathA]>>
    /\ savedTerminals = <<[cwd |-> PathA], [cwd |-> PathA], [cwd |-> PathB]>>
    /\ terminals = <<>>
    /\ terminalOrder = <<>>

\* C25: every session live when window-all-closed began is in terminals.json once the
\* process has quit, and is a ghost of the next run; after the handler the live map is
\* empty.
C25_ShutdownKeepsLiveSessions ==
    /\ phase = "quit" => terminals = <<>>
    /\ (phase = "quit" /\ pendingWrites = <<>>) =>
           \A e \in Range(hAtShutdown) :
               Occurrences(disk.terminals, e) >= Occurrences(hAtShutdown, e)
    /\ (last.op = "whenReady" /\ last.ok) =>
           \A e \in Range(hAtShutdown) :
               Occurrences(savedTerminals, e) >= Occurrences(hAtShutdown, e)

\* C30: once every write in flight has settled, terminals.json holds the snapshot
\* issued last, which lists the live sessions and the ghosts in memory.
C30_LastIssuedSnapshotWins ==
    (phase = "running" /\ pendingWrites = <<>>) => disk.terminals = TerminalEntries

\* C26: the environment of every spawned process holds the variable that names the
\* shared scratch directory.
C26_EnvNamesScratchDirectory ==
    \A id \in DOMAIN ptys : "TERM_PARTY_SCRATCHPAD" \in DOMAIN ptys[id].env

\* C27: an output event of a process makes its chunk the next 'terminal-data' message,
\* unchanged and with the id of its session, while the window exists; it sets the
\* lastDataTime of its session, if live, to the clock; it leaves every other session
\* and process as they were; the messages of one session are in the order of its output.
C27_OutputForwardedInOrder ==
    /\ [][\A id \in (DOMAIN ptys) \cap (DOMAIN ptys') :
              ptys'[id].chunks # ptys[id].chunks =>
                  LET data == Chunk(ptys[id].total, ptys'[id].total - ptys[id].total)
                  IN /\ dataSent' = IF mainWindow
                                    THEN Append(dataSent, [id |-> id, data |-> data])
                                    ELSE dataSent
                     /\ id \in DOMAIN terminals => /\ id \in DOMAIN terminals'
                                                   /\ terminals'[id].lastDataTime = now
                     /\ \A other \in (DOMAIN terminals) \ {id} :
                            /\ other \in DOMAIN terminals'
                            /\ terminals'[other] = terminals[other]
                     /\ \A other \in (DOMAIN ptys) \ {id} : ptys'[other] = ptys[other]]_vars
    /\ [](\A i, j \in DOMAIN dataSent :
              (i < j /\ dataSent[i].id = dataSent[j].id) =>
                  dataSent[i].data[Len(dataSent[i].data)] < dataSent[j].data[1])

\* the chunks of two sessions reached the window interleaved, and the session that
\* wrote after the clock advanced has the later lastDataTime
C27_Witness ==
    /\ dataSent = <<[id |-> 1, data |-> <<1>>], [id |-> 2, data |-> <<1, 2>>],
                    [id |-> 1, data |-> <<2, 3>>]>>
    /\ DOMAIN terminals = {1, 2}
    /\ terminals[1].lastDataTime = 1
    /\ terminals[2].lastDataTime = 0
    /\ terminals[1].tailBuffer = <<1, 2, 3>>
    /\ terminals[2].tailBuffer = <<1, 2>>

\* C28: within a run no step takes a directory out of the name mapping, and kill, exit,
\* remove-saved-terminal and remove-favorite leave the mapping as it is; startup keeps
\* every entry of the stored mapping with its name, the migration adding entries only.
C28_NamesOnlyGrow ==
    [][/\ phase' # "starting" /\ phase # "starting" =>
              DOMAIN directoryNames \subseteq DOMAIN directoryNames'
       /\ last'.op \in {"kill", "exit", "removeGhost", "removeFavorite", "create"} =>
              directoryNames' = directoryNames
       /\ (phase = "starting" /\ phase' = "running") =>
              \A cwd \in DOMAIN Loaded("names") :
                  /\ cwd \in DOMAIN directoryNames'
                  /\ directoryNames'[cwd] = Loaded("names")[cwd]]_vars

\* what the session side of the state is: the live map, the order, the ghosts and the
\* exit history
sessionVars == <<terminals, terminalOrder, savedTerminals, recentExits>>

\* C29 as stated: add-favorite and remove-favorite leave the live map, the order, the
\* ghosts, the exit history and the name mapping as they were; create, kill, exit and
\* rename-terminal leave the favorites as they were.
C29_FavoritesChangeOnlyFavorites ==
    [][/\ last'.op \in {"addFavorite", "removeFavorite"} =>
              UNCHANGED <<sessionVars, directoryNames>>
       /\ last'.op \in {"create", "kill", "exit", "renameTerminal"} =>
              UNCHANGED favorites]_vars

\* C29, amended: as stated, except that an add-favorite that adds the directory, with a
\* non-empty name other than the last segment of the directory, for a directory
\* without a non-empty name, maps the directory to that name.
C29_FavoritesFrameButSeededName ==
    [][/\ last'.op = "removeFavorite" => UNCHANGED <<sessionVars, directoryNames>>
       /\ last'.op = "addFavorite" =>
              /\ UNCHANGED sessionVars
              /\ directoryNames' =
                     IF /\ favorites' # favorites
                        /\ last'.title # ""
                        /\ last'.title # Basename(last'.cwd)
                        /\ ~(/\ last'.cwd \in DOMAIN directoryNames
                             /\ directoryNames[last'.cwd] # "")
                     THEN Put(directoryNames, last'.cwd, last'.title)
                     ELSE directoryNames
       /\ last'.op \in {"create", "kill", "exit", "renameTerminal"} =>
              UNCHANGED favorites]_vars

\* the ghost's directory had been renamed to the empty title; it became a favorite
\* under the name a, which is now its name, with session 1 live and untouched
C29_Witness ==
    /\ last.op = "addFavorite"
    /\ last.ok
    /\ last.title = "a"
    /\ favorites = <<[cwd |-> PathB]>>
    /\ directoryNames = Put(<<>>, PathB, "a")
    /\ disk.names = Put(<<>>, PathB, "")
    /\ DOMAIN terminals = {1}
    /\ savedTerminals = <<[cwd |-> PathB]>>

----------------------------------------------------------------------------
(* Promotion of ghosts *)
CwdCount(list, cwd) == Cardinality({k \in DOMAIN list : list[k].cwd = cwd})

\* the step is the first part of spawnGhost, which leaves its closure last in awaiting
PromotionBegins ==
    /\ Len(awaiting') = Len(awaiting) + 1
    /\ awaiting'[Len(awaiting')].fn = "spawnGhost"

\* C31: a promotion spawnGhost(index, cwd) takes out of the ghost list exactly one entry
\* of the directory cwd when the list holds one, whatever was removed or promoted since
\* the row was drawn, and never an entry of another directory
C31_PromotionRemovesItsOwnGhost ==
    [][PromotionBegins =>
         LET cwd == awaiting'[Len(awaiting')].cwd
         IN IF CwdCount(savedTerminals, cwd) > 0
            THEN \E k \in DOMAIN savedTerminals :
                     /\ savedTerminals[k].cwd = cwd
                     /\ savedTerminals' = Splice(savedTerminals, k - 1)
            ELSE savedTerminals' = savedTerminals]_vars

\* the step is the createTerminal call of the promotion suspended at k, and pty.spawn throws
PromotionFailsToSpawn(k) ==
    /\ k \in DOMAIN awaiting
    /\ awaiting[k].fn = "spawnGhost"
    /\ awaiting' = Resumed(k)
    /\ nextId' # nextId
    /\ last'.op = "create"
    /\ ~last'.ok

\* C32: when the spawn of a promotion fails, the ghost entry the promotion took out is in
\* the ghost list, and so in the next snapshot
C32_FailedPromotionKeepsGhost ==
    [][\A k \in DOMAIN awaiting :
           PromotionFailsToSpawn(k) =>
               /\ \A e \in Range(awaiting[k].hRemoved) : e \in Range(savedTerminals')
               /\ \A e \in Range(awaiting[k].hRemoved) :
                      e \in Range(TerminalEntries')]_vars

\* C33: create-terminal leaves the ghost list as it is, so that a directory can be live
\* and a ghost at once and is then twice in the snapshot; the ghost list changes only by
\* remove-saved-terminal taking one entry out, and nothing adds to it after startup
C33_OnlyRemoveGhostChangesGhosts ==
    [][/\ nextId' # nextId => savedTerminals' = savedTerminals
       /\ savedTerminals' # savedTerminals =>
              /\ last'.op = "removeGhost"
              /\ savedTerminals' = Splice(savedTerminals, last'.id)]_vars

\* a session was created in the directory of a ghost: the directory is live and a ghost,
\* and the snapshot names it twice
C33_Witness ==
    /\ last.op = "create"
    /\ last.ok
    /\ last.id \in DOMAIN terminals
    /\ [cwd |-> terminals[last.id].cwd] \in Range(savedTerminals)
    /\ Cardinality({k \in DOMAIN TerminalEntries :
                       TerminalEntries[k].cwd = terminals[last.id].cwd}) >= 2

----------------------------------------------------------------------------
(* Output after kill *)
\* the step is onData of the process of id
WritesOutput(id) ==
    /\ id \in DOMAIN ptys
    /\ ptys'[id].chunks = ptys[id].chunks + 1

\* C34: output of a process whose id is no longer in the live map, between kill and
\* exit, does not register the session again and changes neither the live map, so no
\* other session's tailBuffer or lastDataTime, nor the order, the ghosts or the exits
C34_LateOutputChangesNoRegistry ==
    [][\A id \in DOMAIN ptys :
           WritesOutput(id) /\ id \notin DOMAIN terminals =>
               /\ terminals' = terminals
               /\ terminalOrder' = terminalOrder
               /\ savedTerminals' = savedTerminals
               /\ recentExits' = recentExits
               /\ nextId' = nextId]_vars

\* the process of session 1 has written after session 1 was killed, while session 2
\* is live with output of its own
C34_Witness ==
    /\ last.op = "data"
    /\ ~last.live
    /\ last.id \in DOMAIN ptys
    /\ ptys[last.id].state = "killed"
    /\ \E other \in DOMAIN terminals : terminals[other].tailBuffer # <<>>

----------------------------------------------------------------------------
(* Termination of killed sessions *)
Killed(id) == id \in DOMAIN ptys /\ ptys[id].state = "killed"

ExitRecorded(id) ==
    /\ \E k \in DOMAIN recentExits : recentExits[k].id = id
    /\ Count(exitedSent, id) >= 1

\* C35: when the process of a killed session terminates, every kill of a live id is
\* followed by an exit record put at the head of the exit history and by a terminated
\* notification for the id; and a session whose process has exited, killed or on its
\* own, is in neither the live map nor the order
C35_KilledSessionsAreRecorded ==
    /\ \A id \in Ids : Killed(id) ~> ExitRecorded(id)
    /\ [][\A id \in Ids : Killed(id) /\ ~Killed(id)' =>
              /\ recentExits' # <<>>
              /\ recentExits'[1].id = id
              /\ Count(exitedSent', id) = Count(exitedSent, id) + 1]_vars
    /\ [](\A id \in DOMAIN ptys :
              ptys[id].state = "exited" =>
                  id \notin DOMAIN terminals /\ id \notin Range(terminalOrder))

\* the process of a killed session has exited: its record heads the exit history and
\* the window was notified
C35_Witness ==
    /\ last.op = "exit"
    /\ ~last.live
    /\ recentExits # <<>>
    /\ recentExits[1].id = last.id
    /\ Count(exitedSent, last.id) = 1
    /\ ptys[last.id].state = "exited"

----------------------------------------------------------------------------
(* The scratchpad *)
\* the path is the scratchpad directory or below it
InScratchpad(path) ==
    /\ Len(path) >= Len(scratchpadDir)
    /\ SubSeq(path, 1, Len(scratchpadDir)) = scratchpadDir

\* C36: read_file, write_file and delete_file access only paths inside the scratchpad:
\* for a path that resolves outside it, through "..", an absolute path or a sibling
\* directory whose name begins with the scratchpad path, the tool returns the error
\* 'Path traversal not allowed' and reads, writes and deletes nothing
C36_FileToolsStayInScratchpad ==
    [][/\ toolResult'.tool # "none" /\ ~InScratchpad(Resolve(toolResult'.path)) =>
              /\ toolResult'.isError
              /\ toolResult'.text = "Error: Path traversal not allowed"
       /\ \A f \in (DOMAIN scratchFiles) \cup (DOMAIN scratchFiles') :
              ~InScratchpad(f) =>
                  /\ f \in DOMAIN scratchFiles
                  /\ f \in DOMAIN scratchFiles'
                  /\ scratchFiles'[f] = scratchFiles[f]]_vars

----------------------------------------------------------------------------
(* The channel log *)
AllIdle == \A p \in Servers : servers[p].pc = "idle"

\* the last n elements of s, all of s when it has fewer
LastOf(s, n) == IF Len(s) > n THEN SubSeq(s, Len(s) - n + 1, Len(s)) ELSE s

\* C37: after any sequence of append_log calls of one server to one log file the file
\* holds at most MAX_LOG_LINES entries, they are the most recently appended ones in the
\* order of their appends, and each carries the _from and _ts the server set
C37_LogKeepsNewestEntries ==
    AllIdle =>
        /\ Len(logLines) <= MAX_LOG_LINES
        /\ logLines = LastOf(hAppended, MAX_LOG_LINES)
        /\ \A k \in DOMAIN logLines :
               /\ {"_from", "_ts"} \subseteq DOMAIN logLines[k]
               /\ logLines[k]._from = terminalName
               /\ logLines[k]._ts \in 0..now

\* the server has appended more than MAX_LOG_LINES entries and trimmed the file
C37_Witness ==
    /\ AllIdle
    /\ servers[1].sent > MAX_LOG_LINES + 1
    /\ Len(hAppended) = servers[1].sent
    /\ Len(logLines) = MAX_LOG_LINES
    /\ logLines[1].seq = servers[1].sent - MAX_LOG_LINES + 1
    /\ toolResult.tool = "append_log"

\* C38: when two servers of one terminal name append to the log of one project at the
\* same time, every appended entry among the MAX_LOG_LINES most recent is in the file
\* once both calls have returned
C38_ConcurrentAppendsAreKept ==
    AllIdle => \A e \in Range(LastOf(hAppended, MAX_LOG_LINES)) : e \in Range(logLines)

----------------------------------------------------------------------------
(* The dashboard's polling *)
\* C39: the polling interval of the dashboard runs exactly while the dashboard is the
\* active view: activating it starts one interval, any switch away clears it, and there
\* are never two, whatever views are activated and sessions killed or exited
C39_DashboardPollsOnlyWhenActive ==
    /\ timers # {} <=> activeViewId = SpecialView("dashboard")
    /\ Cardinality(timers) <= 1
    /\ timers = IF dashboardPollInterval = 0 THEN {} ELSE {dashboardPollInterval}

\* the dashboard is active for the second time, after a terminal was shown and a session
\* ended: its first interval was cleared and the second runs
C39_Witness ==
    /\ activeViewId = SpecialView("dashboard")
    /\ timers = {2}
    /\ hEnded # {}
    /\ termViews # {}

====
